---- MODULE Spec2Model ----
(***************************************************************************)
(* TranscriptAI-SK: the credential pool (TranscriptionEngine._get_next_key *)
(* and _report_key_cooldown), the parallel chunk scheduler                 *)
(* (transcribe_full / process_chunk / transcribe_chunk) and the speaker    *)
(* overlay (smart_format_chunk_sync) of src/main.py.                       *)
(*                                                                         *)
(* Time is counted in ticks of one second; time 0 is the process start.    *)
(* A sleep of random.uniform(0.5, x) is taken to last one second, a value  *)
(* of its range, and a sleeper may always be scheduled later than its      *)
(* wake-up time.                                                           *)
(* A key is a pair <<tier, i>>: the i-th entry of settings                 *)
(* "paid_api_keys" or "free_api_keys".  The two lists hold distinct keys.  *)
(***************************************************************************)
EXTENDS Integers, Sequences, FiniteSets, TLC

VARIABLES
    paid_keys,      \* settings["paid_api_keys"]
    free_keys,      \* settings["free_api_keys"]
    key_usage,      \* engine.key_usage: key -> [calls, last_reset, cooldown_until]
    now,            \* time.time(), in ticks
    reserve,        \* SpecReserve: the split computed from the settings
    held,           \* SpecPool: caller -> the key its last acquire returned, or None
    last,           \* SpecPool: the last pool operation and what it saw, the
                    \*           caller that made it and the holder of key_lock
                    \*           when it was made (history)
    key_lock,       \* SpecPool: the caller inside "with self.key_lock", or "nobody"
    deadline,       \* SpecPool: key -> t + d of the latest cooldown report (history)
    everReset,      \* SpecPool: some acquire has reset a rolling counter (history)
    acquires,       \* SpecPool: number of acquire calls made so far (history)
    raw_segments,   \* SpecMerge: result["segments"] of one chunk: the texts, by s_idx
    speaker_map,    \* SpecMerge: id -> speaker, as parsed from the secondary model
    format_attempt, \* SpecMerge: attempt of smart_format_chunk_sync
    segments_data,  \* SpecMerge: process_chunk's segments_data
    final_text,     \* SpecMerge: the text smart_format_chunk_sync returns
    mstage,         \* SpecMerge: "raw", "built", "parsing", "parsed", "merged",
                    \*            "unformatted", "assembled"
    siblings,       \* SpecMerge: the results of the chunks before and after this one
    full_text,      \* full_text of transcribe_full, once post-processed
    jpc,            \* Spec: where transcribe_full stands
    job_ret,        \* Spec: what transcribe_full returns
    cancelled,      \* Spec: job_id in engine.cancelled_jobs
    total_chunks,   \* Spec: len(chunks)
    workers,        \* Spec: idx -> the process_chunk(idx, chunk) task
    doneq,          \* Spec: the finished tasks, in completion order, not yet awaited
    results,        \* Spec: the results list of transcribe_full
    completed_count,\* Spec: completed_count of transcribe_full
    faults,         \* Spec: responses other than a success drawn so far
    at_cancel,      \* Spec: what the job was doing when it was cancelled (history)
    events,         \* Spec: what ws_manager.broadcast was given for the job, in
                    \*       order: its progress, error and complete events
    summary,        \* Spec: the _generate_executive_summary call of the job
    rate_limited,   \* Spec: how many 429s the tasks were answered so far and
                    \*       the latest of them (history)
    sizing,         \* SpecSizing: chunk_minutes of transcribe_full and the
                    \*             settings it was computed from
    cancelled_jobs, \* SpecTwoJobs: engine.cancelled_jobs, a set of job ids
    jobs,           \* SpecTwoJobs: job_id -> the run_job of that id and the
                    \*              process_chunk task of its one chunk
    sink            \* Spec: the websocket in ws_manager.active_connections:
                    \*       "connected", "failing" (its next send raises) or
                    \*       "gone" (no connection is left in the list)

poolVars == <<paid_keys, free_keys, key_usage, now>>
harnessVars == <<held, last, key_lock, deadline, everReset, acquires>>
mergeVars == <<raw_segments, speaker_map, segments_data, final_text, mstage,
               siblings, format_attempt>>
jobCore == <<jpc, job_ret, cancelled, total_chunks, workers, doneq, results,
             completed_count, faults, at_cancel, events, summary>>
jobVars == <<jobCore, full_text, rate_limited, sink, sizing, cancelled_jobs, jobs>>
vars == <<paid_keys, free_keys, key_usage, now, reserve, held, last, key_lock,
          deadline,
          everReset, acquires, raw_segments, speaker_map, format_attempt,
          segments_data,
          final_text, mstage, siblings, full_text, jpc, job_ret, cancelled,
          total_chunks, workers, doneq, results, completed_count, faults,
          at_cancel, events, summary, rate_limited, sink, sizing, cancelled_jobs,
          jobs>>

None == <<"none">>

\* chunk_minutes not computed yet
NoSizing ==
    [computed |-> FALSE, total_keys |-> 0, saved_chunk_size |-> 0,
     chunk_minutes |-> 0]

\* ------------------------------------------------------------------ bounds

\* SpecReserve: the longest key lists drawn
RMaxPaid == 5
RMaxFree == 9
\* SpecPool: the most keys configured, the ticks taken, the number of acquires
PMaxKeys == 2
PMaxTicks == 2
PMaxAcquires == 3
\* SpecMerge: the most subsegments in one chunk's response
MMaxSegments == 2
\* Spec: the most keys configured, the most chunks split, the last tick, the
\* responses other than a success the service gives in all
JMaxKeys == 2
JMaxChunks == 2
JMaxTime == 4
JMaxFaults == 2
\* Spec: max_retries of transcribe_chunk (300 at main.py:821) and the attempt
\* ceiling of smart_format_chunk_sync (100 at main.py:733), scaled down
MaxRetries == 2
MaxFormatAttempts == 2
\* Spec: the attempt ceiling of _generate_executive_summary (15 at
\* main.py:1313), scaled down
MaxSummaryAttempts == 2

\* ------------------------------------------------------------- constants

\* n seconds, in ticks
Seconds(n) == n
\* main.py:311  "if now - usage['last_reset'] > 60"
ResetWindow == Seconds(60)

\* ------------------------------------------------------------- sequences

Max(a, b) == IF a >= b THEN a ELSE b
Min(a, b) == IF a <= b THEN a ELSE b
Range(s) == {s[i] : i \in 1..Len(s)}
PaidList(n) == [i \in 1..n |-> <<"paid", i>>]
FreeList(n) == [i \in 1..n |-> <<"free", i>>]

\* Python's s[-c:] and s[:-c] for 0 < c <= len(s)
LastN(s, c) == SubSeq(s, Len(s) - c + 1, Len(s))
DropLastN(s, c) == SubSeq(s, 1, Len(s) - c)

\* --------------------------------------------------- the 25% key reserve

\* int(len(free_keys) * 0.25): 0.25 is exact in binary, so this is n div 4
QuarterOf(n) == n \div 4

\* mutant: the single free key is not spared from the reserve
BackupCountNoCollapse(free) ==
    IF free = <<>> THEN 0 ELSE Max(1, QuarterOf(Len(free)))

\* main.py:292-297
BackupCount(free) ==
    IF free = <<>> THEN 0
    ELSE LET c == Max(1, QuarterOf(Len(free)))
         IN IF c >= Len(free) THEN (IF Len(free) = 1 THEN 0 ELSE 1) ELSE c

\* mutant: the reserve is taken from the front of the list
BackupKeysFromFront(free) == SubSeq(free, 1, BackupCount(free))

\* main.py:299-304
BackupKeys(free) ==
    IF BackupCount(free) > 0 THEN LastN(free, BackupCount(free)) ELSE <<>>

PrimaryFree(free) ==
    IF BackupCount(free) > 0 THEN DropLastN(free, BackupCount(free)) ELSE free

\* main.py:306
PrimaryKeys(paid, free) == paid \o PrimaryFree(free)

\* main.py:328
AllConfigured(paid, free) == PrimaryKeys(paid, free) \o BackupKeys(free)

\* SettingsManager.get_all_keys
GetAllKeys(paid, free) == paid \o free

\* ------------------------------------------------------ the credential pool

\* main.py:270  defaultdict(lambda: {"calls": 0, "last_reset": time.time(), ...})
DefaultUsage(t) == [calls |-> 0, last_reset |-> t, cooldown_until |-> 0]

\* key_usage[k] for every k of keys: a missing entry is created on first access
Touch(ku, keys, t) ==
    [k \in (DOMAIN ku) \cup Range(keys) |->
        IF k \in DOMAIN ku THEN ku[k] ELSE DefaultUsage(t)]

\* main.py:308-313  "Reset call states over time"
NeedsReset(u, t) == t - u.last_reset > ResetWindow

ResetCalls(ku, keys, t) ==
    LET tu == Touch(ku, keys, t)
    IN [k \in DOMAIN tu |->
           IF k \in Range(keys) /\ NeedsReset(tu[k], t)
           THEN [tu[k] EXCEPT !.calls = 0, !.last_reset = t]
           ELSE tu[k]]

\* mutant: the cooldown filter is dropped
AvailableIgnoringCooldown(keys, ku, t) == keys

\* main.py:316-317  [k for k in keys if now >= key_usage[k].get("cooldown_until", 0)]
Available(keys, ku, t) ==
    SelectSeq(keys, LAMBDA k : t >= ku[k].cooldown_until)

\* mutant: the first available key, whatever its load
FirstListed(avail, ku) == avail[1]

\* main.py:322, 325  min(available, key=lambda k: key_usage[k]["calls"])
\* (Python's min returns the first element with the least key)
LeastLoaded(avail, ku) ==
    LET i == CHOOSE i \in 1..Len(avail) :
                 /\ \A j \in 1..Len(avail) : ku[avail[i]].calls <= ku[avail[j]].calls
                 /\ \A j \in 1..(i - 1) : ku[avail[j]].calls > ku[avail[i]].calls
    IN avail[i]

\* mutant: the first configured key, whatever its expiry
FirstConfigured(all, ku) == all[1]

\* main.py:330  min(all_configured, key=lambda k: key_usage[k].get("cooldown_until", 0))
SoonestExpiry(all, ku) ==
    LET i == CHOOSE i \in 1..Len(all) :
                 /\ \A j \in 1..Len(all) :
                        ku[all[i]].cooldown_until <= ku[all[j]].cooldown_until
                 /\ \A j \in 1..(i - 1) :
                        ku[all[j]].cooldown_until > ku[all[i]].cooldown_until
    IN all[i]

\* mutant: the chosen key is charged two calls
ChargeTwice(ku, k) == [ku EXCEPT ![k].calls = @ + 2]

\* main.py:332-334  the chosen key's rolling counter is incremented
Charge(ku, k) == [ku EXCEPT ![k].calls = @ + 1]

\* mutant: the reserve is tried before the primary keys
SelectKeyBackupFirst(primary, backup, ku, t) ==
    LET ap == Available(primary, ku, t)
        ab == Available(backup, ku, t)
        all == primary \o backup
    IN IF ab # <<>>
       THEN [key |-> LeastLoaded(ab, ku), usage |-> Charge(ku, LeastLoaded(ab, ku))]
       ELSE IF ap # <<>>
       THEN [key |-> LeastLoaded(ap, ku), usage |-> Charge(ku, LeastLoaded(ap, ku))]
       ELSE IF all = <<>>
       THEN [key |-> None, usage |-> ku]
       ELSE [key |-> SoonestExpiry(all, ku), usage |-> ku]

\* main.py:319-334  the choice among primary, backup and the all-banned fallback
SelectKey(primary, backup, ku, t) ==
    LET ap == Available(primary, ku, t)
        ab == Available(backup, ku, t)
        all == primary \o backup
    IN IF ap # <<>>
       THEN [key |-> LeastLoaded(ap, ku), usage |-> Charge(ku, LeastLoaded(ap, ku))]
       ELSE IF ab # <<>>
       THEN [key |-> LeastLoaded(ab, ku), usage |-> Charge(ku, LeastLoaded(ab, ku))]
       ELSE IF all = <<>>
       THEN [key |-> None, usage |-> ku]
       ELSE [key |-> SoonestExpiry(all, ku), usage |-> ku]

\* main.py:280-334  _get_next_key(keys), under key_lock: the key returned and the
\* key_usage it leaves
GetNextKey(keys, paid, free, ku, t) ==
    IF keys = <<>> THEN [key |-> None, usage |-> ku]
    ELSE SelectKey(PrimaryKeys(paid, free), BackupKeys(free),
                   ResetCalls(ku, AllConfigured(paid, free), t), t)

\* mutant: a report also clears the rolling counter of the key
ReportClearsCounter(ku, k, wait, t) ==
    [Touch(ku, <<k>>, t) EXCEPT ![k].cooldown_until = t + wait, ![k].calls = 0]

\* main.py:275-278  _report_key_cooldown(key, wait_time), under key_lock
ReportKeyCooldown(ku, k, wait, t) ==
    [Touch(ku, <<k>>, t) EXCEPT ![k].cooldown_until = t + wait]

\* ============================================================ SpecReserve
\* The reserve split of _get_next_key, applied to every settings pair drawn.

NoReserve ==
    [computed |-> FALSE, backup_keys |-> <<>>, primary_free |-> <<>>,
     primary_keys |-> <<>>]
EmptyUsage == [k \in {} |-> DefaultUsage(0)]
Callers == {"w1", "w2"}
IdleHarness ==
    /\ held = [c \in Callers |-> None]
    /\ last = [op |-> "init", key |-> None, by |-> "nobody", holder |-> "nobody"]
    /\ key_lock = "nobody"
    /\ deadline = [k \in Range(GetAllKeys(paid_keys, free_keys)) |-> 0]
    /\ everReset = FALSE
    /\ acquires = 0

IdleMerge ==
    /\ raw_segments = <<>>
    /\ speaker_map = <<>>
    /\ format_attempt = 0
    /\ segments_data = <<>>
    /\ final_text = <<>>
    /\ mstage = "idle"
    /\ siblings = [before |-> <<>>, after |-> <<>>]

IdleJob ==
    /\ jpc = "idle"
    /\ job_ret = "none"
    /\ cancelled = FALSE
    /\ total_chunks = 0
    /\ workers = <<>>
    /\ doneq = <<>>
    /\ results = <<>>
    /\ completed_count = 0
    /\ faults = 0
    /\ at_cancel = [phase |-> "none", unstarted |-> {}]
    /\ full_text = <<>>
    /\ events = <<>>
    /\ summary = [pc |-> "idle", key |-> None, attempt |-> 0, wake |-> 0]
    /\ rate_limited = [n |-> 0, response |-> None]
    /\ sink = "gone"
    /\ sizing = NoSizing
    /\ cancelled_jobs = {}
    /\ jobs = <<>>

InitReserve ==
    /\ paid_keys \in {PaidList(n) : n \in 0..RMaxPaid}
    /\ free_keys \in {FreeList(n) : n \in 0..RMaxFree}
    /\ key_usage = EmptyUsage
    /\ now = 0
    /\ reserve = NoReserve
    /\ IdleHarness
    /\ IdleMerge
    /\ IdleJob

\* main.py:288-306
ComputeReserve ==
    /\ ~reserve.computed
    /\ reserve' = [computed |-> TRUE,
                   backup_keys |-> BackupKeys(free_keys),
                   primary_free |-> PrimaryFree(free_keys),
                   primary_keys |-> PrimaryKeys(paid_keys, free_keys)]
    /\ UNCHANGED <<poolVars, harnessVars, mergeVars, jobVars>>

NextReserve == ComputeReserve

SpecReserve == InitReserve /\ [][NextReserve]_vars

\* =============================================================== SpecSizing
\* The chunk length transcribe_full chooses, for every settings pair drawn
\* that has a key (without one transcribe_full has returned before).

\* settings["chunk_duration_minutes"], in minutes
SavedChunkSizes == {5, 10, 15, 20, 25, 30}

\* main.py:978-986  chunk_minutes by the number of keys
ChunkMinutesOfBand(total_keys) ==
    IF total_keys <= 2 THEN 25
    ELSE IF total_keys <= 5 THEN 20
    ELSE IF total_keys <= 10 THEN 15
    ELSE 10

\* mutant: the saved setting replaces the band's value
SavedOverrides(band, saved) == saved

\* main.py:989-990  chunk_minutes = max(chunk_minutes, saved_chunk_size)
EffectiveChunkMinutes(band, saved) == Max(band, saved)

InitSizing ==
    /\ InitReserve
    /\ Len(GetAllKeys(paid_keys, free_keys)) > 0

\* main.py:977-990
ChooseChunkMinutes(saved) ==
    /\ ~sizing.computed
    /\ LET total_keys == Len(GetAllKeys(paid_keys, free_keys))
       IN sizing' = [computed |-> TRUE, total_keys |-> total_keys,
                     saved_chunk_size |-> saved,
                     chunk_minutes |->
                         EffectiveChunkMinutes(ChunkMinutesOfBand(total_keys), saved)]
    /\ UNCHANGED <<poolVars, reserve, harnessVars, mergeVars, jobCore, full_text,
                   rate_limited, sink, cancelled_jobs, jobs>>

NextSizing == \E saved \in SavedChunkSizes : ChooseChunkMinutes(saved)

SpecSizing == InitSizing /\ [][NextSizing]_vars

\* =============================================================== SpecPool
\* The pool under concurrent callers.  key_lock makes _get_next_key and
\* _report_key_cooldown atomic, so each is one step.  A caller reports a
\* cooldown only for the key its last acquire returned (transcribe_chunk and
\* smart_format_chunk_sync report the key a 429 came back for).

\* wait hints drawn for a 429, in ticks
Waits == {1, 3}
\* time passes one tick at a time, or by more than a whole counter window
TickSteps == {1, ResetWindow + 1}
TicksUsed(t) == (t \div (ResetWindow + 1)) + (t % (ResetWindow + 1))

InitPool ==
    /\ paid_keys \in {PaidList(n) : n \in 0..PMaxKeys}
    /\ free_keys \in {FreeList(n) : n \in 0..PMaxKeys}
    /\ Len(paid_keys) + Len(free_keys) <= PMaxKeys
    /\ key_usage = EmptyUsage
    /\ now = 0
    /\ reserve = NoReserve
    /\ IdleHarness
    /\ IdleMerge
    /\ IdleJob

\* main.py:277, 285: a caller enters "with self.key_lock" of
\* _report_key_cooldown or of _get_next_key
Enter(c) ==
    /\ key_lock = "nobody"
    /\ acquires < PMaxAcquires \/ held[c] # None
    /\ key_lock' = c
    /\ UNCHANGED <<poolVars, reserve, held, last, deadline, everReset, acquires,
                   mergeVars, jobVars>>

\* a caller's  api_key = self._get_next_key(all_keys)   (main.py:737, 827):
\* the body of its with block, and the way out of it
Acquire(c) ==
    /\ key_lock = c
    /\ acquires < PMaxAcquires
    /\ LET r == GetNextKey(GetAllKeys(paid_keys, free_keys), paid_keys, free_keys,
                           key_usage, now)
       IN /\ key_usage' = r.usage
          /\ held' = [held EXCEPT ![c] = r.key]
          /\ last' = [op |-> "acquire", key |-> r.key, by |-> c,
                       holder |-> key_lock]
          /\ everReset' =
               (everReset \/ \E k \in DOMAIN key_usage :
                                /\ k \in Range(AllConfigured(paid_keys, free_keys))
                                /\ NeedsReset(key_usage[k], now))
    /\ acquires' = acquires + 1
    /\ key_lock' = "nobody"
    /\ UNCHANGED <<paid_keys, free_keys, now, reserve, deadline, mergeVars, jobVars>>

\* a caller's  self._report_key_cooldown(api_key, wait_time)  (main.py:773, 904):
\* the body of its with block, and the way out of it
Cooldown(c, d) ==
    /\ key_lock = c
    /\ held[c] # None
    /\ key_usage' = ReportKeyCooldown(key_usage, held[c], d, now)
    /\ deadline' = [deadline EXCEPT ![held[c]] = now + d]
    /\ last' = [op |-> "cooldown", key |-> held[c], by |-> c, holder |-> key_lock]
    /\ held' = [held EXCEPT ![c] = None]
    /\ key_lock' = "nobody"
    /\ UNCHANGED <<paid_keys, free_keys, now, reserve, everReset, acquires,
                   mergeVars, jobVars>>

\* main.py:833  key_cooldown = self.key_usage[api_key].get("cooldown_until", 0)
\* in transcribe_chunk, after _get_next_key has returned: no with block
ReadCooldown(c) ==
    /\ held[c] # None
    /\ last.op # "read" \/ last.by # c
    /\ last' = [op |-> "read", key |-> held[c], by |-> c, holder |-> key_lock]
    /\ UNCHANGED <<poolVars, reserve, held, key_lock, deadline, everReset,
                   acquires, mergeVars, jobVars>>

Tick(d) ==
    /\ TicksUsed(now) < PMaxTicks
    /\ now' = now + d
    /\ last' = [op |-> "tick", key |-> None, by |-> "nobody", holder |-> key_lock]
    /\ UNCHANGED <<paid_keys, free_keys, key_usage, reserve, held, key_lock, deadline,
                   everReset, acquires, mergeVars, jobVars>>

NextPool ==
    \/ \E c \in Callers : Enter(c)
    \/ \E c \in Callers : Acquire(c)
    \/ \E c \in Callers : ReadCooldown(c)
    \/ \E c \in Callers, d \in Waits : Cooldown(c, d)
    \/ \E d \in TickSteps : Tick(d)

SpecPool == InitPool /\ [][NextPool]_vars

\* ============================================================== SpecMerge
\* process_chunk's segments_data and the overlay of smart_format_chunk_sync.
\* A text is a sequence of characters, each a one-character string; the
\* markers "[SPEAKER]" and "[TIME]", a speaker name and a time string are one
\* token each (a time string "[mm:ss]" holds no white space).

IsSpace(c) == c \in {" ", "\n"}

\* str.strip()
RECURSIVE LStrip(_)
LStrip(t) == IF t # <<>> /\ IsSpace(Head(t)) THEN LStrip(Tail(t)) ELSE t
RECURSIVE RStrip(_)
RStrip(t) ==
    IF t # <<>> /\ IsSpace(t[Len(t)]) THEN RStrip(SubSeq(t, 1, Len(t) - 1)) ELSE t
Strip(t) == LStrip(RStrip(t))

\* str.replace("\n ", "\n"): left to right, without overlap
RECURSIVE ReplaceNewlineSpace(_)
ReplaceNewlineSpace(t) ==
    IF t = <<>> THEN <<>>
    ELSE IF Len(t) >= 2 /\ t[1] = "\n" /\ t[2] = " "
         THEN <<"\n">> \o ReplaceNewlineSpace(SubSeq(t, 3, Len(t)))
         ELSE <<Head(t)>> \o ReplaceNewlineSpace(Tail(t))

TimeStr == "[mm:ss]"

\* main.py:1040-1055  the subsegments kept, with their s_idx as id (0-based)
RECURSIVE BuildSegmentsData(_, _)
BuildSegmentsData(raw, s_idx) ==
    IF s_idx >= Len(raw) THEN <<>>
    ELSE (IF Strip(raw[s_idx + 1]) # <<>>
          THEN <<[id |-> s_idx, time_str |-> TimeStr,
                  text |-> Strip(raw[s_idx + 1])]>>
          ELSE <<>>)
         \o BuildSegmentsData(raw, s_idx + 1)

\* main.py:809  f"\n\n[SPEAKER] {current_speaker}\n[TIME] {s['time_str']}\n"
Header(speaker, time_str) ==
    <<"\n", "\n", "[SPEAKER]", " ", speaker, "\n", "[TIME]", " ", time_str, "\n">>

\* mutant: a subsegment that opens a speaker turn loses its text
OverlayStepDroppingText(acc, s) ==
    LET smap == IF s.id = 0 /\ s.id \notin DOMAIN acc.speaker_map
                THEN [k \in (DOMAIN acc.speaker_map) \cup {0} |->
                         IF k = 0 THEN acc.current_speaker
                         ELSE acc.speaker_map[k]]
                ELSE acc.speaker_map
    IN IF s.id \in DOMAIN smap
       THEN [final_text |-> acc.final_text \o Header(smap[s.id], s.time_str),
             current_speaker |-> smap[s.id], speaker_map |-> smap]
       ELSE [final_text |-> acc.final_text \o s.text \o <<" ">>,
             current_speaker |-> acc.current_speaker, speaker_map |-> smap]

\* main.py:800-811  one turn of the overlay loop
OverlayStep(acc, s) ==
    LET smap == IF s.id = 0 /\ s.id \notin DOMAIN acc.speaker_map
                THEN [k \in (DOMAIN acc.speaker_map) \cup {0} |->
                         IF k = 0 THEN acc.current_speaker
                         ELSE acc.speaker_map[k]]
                ELSE acc.speaker_map
        speaker == IF s.id \in DOMAIN smap THEN smap[s.id] ELSE acc.current_speaker
        head == IF s.id \in DOMAIN smap THEN Header(speaker, s.time_str) ELSE <<>>
    IN [final_text |-> acc.final_text \o head \o s.text \o <<" ">>,
        current_speaker |-> speaker, speaker_map |-> smap]

RECURSIVE OverlayLoop(_, _)
OverlayLoop(acc, data) ==
    IF data = <<>> THEN acc ELSE OverlayLoop(OverlayStep(acc, Head(data)), Tail(data))

\* mutant: a speaker is named where none is known
NamedByDefault == "Host"

\* main.py:798  current_speaker = "Unknown Speaker"
UnknownSpeaker == "Unknown Speaker"

\* main.py:796-815
Overlay(data, smap) ==
    Strip(ReplaceNewlineSpace(
        OverlayLoop([final_text |-> <<>>, current_speaker |-> UnknownSpeaker,
                     speaker_map |-> smap], data).final_text))

\* ---------------------------------------------- results and their assembly
\* A result is what process_chunk returns for chunk i (producer is the idx it
\* returns with it); its text is a sequence of tokens.

\* main.py:1029  a slot of [None] * total_chunks
NoResult == [error |-> FALSE, text |-> <<"None">>, producer |-> -1]
\* main.py:1034, 825, 838, 908, 923
CancelledResult(i) == [error |-> TRUE, text |-> <<"[CANCELLED]">>, producer |-> i]
\* main.py:928, 931
ErrorResult(i, why) == [error |-> TRUE, text |-> <<why>>, producer |-> i]
\* main.py:915 with 1058-1065
OkResult(i, text) == [error |-> FALSE, text |-> text, producer |-> i]

MaxRetriesExceeded ==
    "[ERROR: Max retries exceeded across all keys. System abandoned chunk.]"

\* mutant: the text of the exception is not kept
ExceptionTextDropped == MaxRetriesExceeded

\* main.py:928  f"[ERROR: Could not transcribe chunk - {str(e)}]"
CouldNotTranscribe == "[ERROR: Could not transcribe chunk - e]"

\* main.py:1099-1100
WarningPrefix == "[WARNING: A section failed to transcribe. Error: "
WarningMarker(err_txt) == <<"\n", "\n", WarningPrefix>> \o err_txt \o <<"]">>

\* mutant: a chunk that failed leaves nothing in the transcript
CombineOneSkippingErrors(result) ==
    IF result # NoResult /\ ~result.error
    THEN <<"\n", "\n">> \o result.text ELSE <<>>

\* main.py:1094-1100  one turn of the loop over results
CombineOne(result) ==
    IF result # NoResult /\ ~result.error
    THEN <<"\n", "\n">> \o result.text
    ELSE WarningMarker(IF result # NoResult THEN result.text
                       ELSE <<"Unknown error">>)

\* main.py:1091-1100
RECURSIVE CombineResults(_)
CombineResults(rs) ==
    IF rs = <<>> THEN <<>> ELSE CombineOne(Head(rs)) \o CombineResults(Tail(rs))

\* the words post_process_transcript knows, as one token each
PromptStr == "Lakh, Crore, EBITDA, YoY, QoQ, PAT, Margins, Revenue"
IsSpeakerTag(tok) == tok \in {"Speaker 1:"}

\* main.py:936  re.sub(r'(Speaker\s*\d+\s*:)', r'\n\n\1', text)
RECURSIVE BreakBeforeSpeakerTags(_)
BreakBeforeSpeakerTags(t) ==
    IF t = <<>> THEN <<>>
    ELSE (IF IsSpeakerTag(Head(t)) THEN <<"\n", "\n", Head(t)>> ELSE <<Head(t)>>)
         \o BreakBeforeSpeakerTags(Tail(t))

\* main.py:938  re.sub(r'\n{3,}', '\n\n', text); run counts the newlines that
\* precede t in the run t starts in
RECURSIVE CollapseNewlines(_, _)
CollapseNewlines(t, run) ==
    IF t = <<>> THEN <<>>
    ELSE IF Head(t) = "\n"
         THEN (IF run >= 2 THEN <<>> ELSE <<"\n">>)
              \o CollapseNewlines(Tail(t), run + 1)
         ELSE <<Head(t)>> \o CollapseNewlines(Tail(t), 0)

\* main.py:940-950  the speaker tags and the financial terms, whatever their case
FixCase(tok) ==
    CASE tok \in {"ebitda", "Ebitda", "EBITDA"} -> "EBITDA"
      [] tok \in {"speaker 1", "Speaker 1", "SPEAKER 1"} -> "Speaker 1"
      [] tok \in {"speaker 1:", "Speaker 1:"} -> "Speaker 1:"
      [] OTHER -> tok

\* mutant: the prompt string is kept
DeleteOccurrencesKeepingAll(t, phrase) == t

\* str.replace(phrase, "")
DeleteOccurrences(t, phrase) == SelectSeq(t, LAMBDA tok : tok # phrase)

\* main.py:933-962; context_keywords is "" or one token
PostProcessTranscript(text, context_keywords) ==
    LET broken == BreakBeforeSpeakerTags(text)
        collapsed == CollapseNewlines(broken, 0)
        fixed == [k \in 1..Len(collapsed) |-> FixCase(collapsed[k])]
        clean == DeleteOccurrences(fixed, PromptStr)
        final == IF context_keywords # ""
                 THEN DeleteOccurrences(clean, context_keywords) ELSE clean
    IN Strip(final)

\* the texts a transcription response may hold (segment["text"], unstripped)
RawTexts ==
    { <<"a">>, <<"b">>, <<" ">>, <<" ", "b", " ">>, <<"a", "\n", " ", "b">>,
      <<"ebitda">>, <<PromptStr>> }

\* what the chunks before and after this one may have ended with
SiblingResults ==
    { <<>>, <<ErrorResult(0, MaxRetriesExceeded)>>, <<OkResult(0, <<"c">>)>> }
\* the names the secondary model may give
Speakers == {"Host", "CEO"}

InitMerge ==
    /\ paid_keys = <<>>
    /\ free_keys = <<>>
    /\ key_usage = EmptyUsage
    /\ now = 0
    /\ reserve = NoReserve
    /\ IdleHarness
    /\ raw_segments \in UNION { [1..n -> RawTexts] : n \in 0..MMaxSegments }
    /\ speaker_map = <<>>
    /\ format_attempt = 0
    /\ segments_data = <<>>
    /\ final_text = <<>>
    /\ mstage = "raw"
    /\ siblings \in [before : SiblingResults, after : SiblingResults]
    /\ IdleJob

\* main.py:1038-1055
BuildData ==
    /\ mstage = "raw"
    /\ segments_data' = BuildSegmentsData(raw_segments, 0)
    /\ mstage' = "built"
    /\ UNCHANGED <<poolVars, reserve, harnessVars, raw_segments, speaker_map,
                   format_attempt, final_text, siblings, jobVars>>

\* attempt += 1
NextAttempt(attempt) == attempt + 1

\* main.py:760-777 and 786-794: a turn of the loop that ends in a 429, in an
\* exception or in a 200 whose content is not JSON
FormatFails ==
    /\ mstage = "built"
    /\ segments_data # <<>>
    /\ format_attempt < MaxFormatAttempts
    /\ format_attempt' = NextAttempt(format_attempt)
    /\ UNCHANGED <<poolVars, reserve, harnessVars, raw_segments, speaker_map,
                   segments_data, final_text, mstage, siblings, jobVars>>

\* main.py:778-781: a 200 whose content is a JSON object; its speaker_changes
\* are gone through one by one
FormatAnswered ==
    /\ mstage = "built"
    /\ segments_data # <<>>
    /\ format_attempt < MaxFormatAttempts
    /\ mstage' = "parsing"
    /\ UNCHANGED <<poolVars, reserve, harnessVars, raw_segments, speaker_map,
                   format_attempt, segments_data, final_text, siblings, jobVars>>

\* main.py:784  speaker_map[int(change["id"])] = change["speaker"]
StoreInMap(smap, id, speaker) ==
    [k \in (DOMAIN smap) \cup {id} |-> IF k = id THEN speaker ELSE smap[k]]

\* main.py:783-784: one change of the list is stored
StoreChange(id, speaker) ==
    /\ mstage = "parsing"
    /\ speaker_map' = StoreInMap(speaker_map, id, speaker)
    /\ UNCHANGED <<poolVars, reserve, harnessVars, raw_segments, format_attempt,
                   segments_data, final_text, mstage, siblings, jobVars>>

\* main.py:784-789: the next change has no "id" or no "speaker", or an id that
\* is no number: the attempt has failed, what it stored stays
ChangeMalformed ==
    /\ mstage = "parsing"
    /\ format_attempt' = NextAttempt(format_attempt)
    /\ mstage' = "built"
    /\ UNCHANGED <<poolVars, reserve, harnessVars, raw_segments, speaker_map,
                   segments_data, final_text, siblings, jobVars>>

\* main.py:785  break: the list is through
ParseDone ==
    /\ mstage = "parsing"
    /\ mstage' = "parsed"
    /\ UNCHANGED <<poolVars, reserve, harnessVars, raw_segments, speaker_map,
                   format_attempt, segments_data, final_text, siblings, jobVars>>

\* the loop of smart_format_chunk_sync has ended with every attempt failed
Exhausted == mstage = "built" /\ format_attempt >= MaxFormatAttempts

\* main.py:1058-1060 with 796-815: the overlay, once the retry loop has ended
Merge ==
    /\ mstage = "parsed" \/ Exhausted
    /\ segments_data # <<>>
    /\ final_text' = Overlay(segments_data, speaker_map)
    /\ mstage' = "merged"
    /\ UNCHANGED <<poolVars, reserve, harnessVars, raw_segments, speaker_map,
                   format_attempt, segments_data, siblings, jobVars>>

\* main.py:1058-1063: no subsegment kept, result["text"] stays as transcribed
KeepUnformatted ==
    /\ mstage = "built"
    /\ segments_data = <<>>
    /\ mstage' = "unformatted"
    /\ UNCHANGED <<poolVars, reserve, harnessVars, raw_segments, speaker_map,
                   format_attempt, segments_data, final_text, siblings, jobVars>>

\* result["text"] of the response: the texts of its segments, as returned
RECURSIVE WhisperText(_)
WhisperText(raw) ==
    IF raw = <<>> THEN <<>> ELSE Head(raw) \o WhisperText(Tail(raw))

\* main.py:1058-1065  what process_chunk returns for this chunk
ChunkResult ==
    OkResult(0, IF segments_data # <<>> THEN final_text
                ELSE WhisperText(raw_segments))

\* the results list of the job, this chunk between its siblings
JobResults == siblings.before \o <<ChunkResult>> \o siblings.after

\* main.py:1088-1103 with company_name "Meeting", so that keywords is ""
Assemble ==
    /\ mstage \in {"merged", "unformatted"}
    /\ full_text' = PostProcessTranscript(CombineResults(JobResults), "")
    /\ mstage' = "assembled"
    /\ UNCHANGED <<poolVars, reserve, harnessVars, raw_segments, speaker_map,
                   format_attempt, segments_data, final_text, siblings, jobCore,
                   rate_limited, sink, sizing, cancelled_jobs, jobs>>

NextMerge ==
    \/ BuildData
    \/ FormatFails
    \/ FormatAnswered
    \/ \E id \in 0..(Len(raw_segments) - 1), speaker \in Speakers :
          StoreChange(id, speaker)
    \/ ChangeMalformed
    \/ ParseDone
    \/ Merge
    \/ KeepUnformatted
    \/ Assemble

SpecMerge == InitMerge /\ [][NextMerge]_vars

\* =================================================================== Spec
\* One job: transcribe_full on the event loop, its process_chunk tasks on the
\* threads of the ThreadPoolExecutor, the shared pool, and the cancel message.
\* A step of a task is what it does between two points where another thread
\* can be seen to act: key_lock makes the pool operations atomic, an external
\* call is issued in one step and answered in a later one.

\* a task: where it is, the key it holds, attempt of the loop it is in, the
\* end of its sleep, the turns of that loop begun so far (iters) and, in
\* transcribe_chunk, the last failure counted (last)
QueuedTask ==
    [pc |-> "queued", key |-> None, attempt |-> 0, wake |-> 0, iters |-> 0,
     last |-> "none"]
FinishedTask ==
    [pc |-> "finished", key |-> None, attempt |-> 0, wake |-> 0, iters |-> 0,
     last |-> "none"]

Idxs == 0..(total_chunks - 1)
Running == {i \in Idxs : workers[i].pc \notin {"queued", "finished"}}
Unstarted == {i \in Idxs : workers[i].pc = "queued"}

\* main.py:970  all_keys = settings_manager.get_all_keys()
all_keys == GetAllKeys(paid_keys, free_keys)

\* main.py:994-996  backup_count as transcribe_full computes it
SchedulerBackupCount(free) ==
    LET c == IF free # <<>> THEN Max(1, QuarterOf(Len(free))) ELSE 0
    IN IF c >= Len(free) THEN (IF Len(free) = 1 THEN 0 ELSE 1) ELSE c

\* mutant: the reserve is counted in the limit
MaxWorkersCountingReserve(paid, free) == Max(1, Len(GetAllKeys(paid, free)))

\* main.py:998-1002  max_workers = primary_count
MaxWorkers(paid, free) ==
    Max(1, Len(GetAllKeys(paid, free)) - SchedulerBackupCount(free))

\* mutant: the cancellation flag is never seen
CancellationNeverSeen == FALSE

\* job_id in self.cancelled_jobs
IsCancelled == cancelled

\* the retry-after header of a 429: not sent (or empty), sent with a text
\* float() does not read (an HTTP date), or sent with a number of seconds
NoHeader == [given |-> FALSE, number |-> FALSE, value |-> 0]
DateHeader == [given |-> TRUE, number |-> FALSE, value |-> 0]
SecondsHeader(n) == [given |-> TRUE, number |-> TRUE, value |-> Seconds(n)]

\* error.message of the body of a 429: with or without "try again in <n>s"
NoHint == [found |-> FALSE, value |-> 0]
TryAgainIn(n) == [found |-> TRUE, value |-> Seconds(n)]

\* the 429s drawn inside the job
RateLimitResponses ==
    { [header |-> SecondsHeader(3), message |-> TryAgainIn(1)],
      [header |-> SecondsHeader(0), message |-> NoHint],
      [header |-> DateHeader, message |-> TryAgainIn(1)],
      [header |-> NoHeader, message |-> TryAgainIn(2)],
      [header |-> NoHeader, message |-> NoHint] }

\* main.py:889  wait_time = 2.0
TcDefaultWait == Seconds(2)
\* main.py:761  wait_time = 1.5: a cooldown that is over at the second tick
\* after the report
SfDefaultWait == Seconds(2)

\* mutant: the body's hint is read before the header
WaitTimeMessageFirst(default, response) ==
    IF response.message.found THEN response.message.value
    ELSE IF response.header.given /\ response.header.number
    THEN response.header.value ELSE default

\* main.py:889-899 and 761-771: wait_time of a 429
WaitTime(default, response) ==
    IF response.header.given
    THEN IF response.header.number THEN response.header.value ELSE default
    ELSE IF response.message.found THEN response.message.value ELSE default

InitJob ==
    /\ paid_keys \in {PaidList(n) : n \in 0..JMaxKeys}
    /\ free_keys \in {FreeList(n) : n \in 0..JMaxKeys}
    /\ Len(paid_keys) + Len(free_keys) <= JMaxKeys
    /\ key_usage = EmptyUsage
    /\ now = 0
    /\ reserve = NoReserve
    /\ IdleHarness
    /\ IdleMerge
    /\ jpc = "queued"
    /\ job_ret = "none"
    /\ cancelled = FALSE
    /\ total_chunks = 0
    /\ workers = <<>>
    /\ doneq = <<>>
    /\ results = <<>>
    /\ completed_count = 0
    /\ faults = 0
    /\ at_cancel = [phase |-> "none", unstarted |-> {}]
    /\ full_text = <<>>
    /\ events = <<>>
    /\ summary = [pc |-> "idle", key |-> None, attempt |-> 0, wake |-> 0]
    /\ rate_limited = [n |-> 0, response |-> None]
    /\ sink = "connected"
    /\ sizing = NoSizing
    /\ cancelled_jobs = {}
    /\ jobs = <<>>

calm == <<reserve, harnessVars, mergeVars, paid_keys, free_keys, sizing,
          cancelled_jobs, jobs>>
quiet == <<calm, rate_limited>>
notJob == <<quiet, sink>>
jobOut == <<events, full_text, summary>>

\* what ws_manager.broadcast is given, the log lines left out
ProgressEvent(progress) ==
    [type |-> "progress", progress |-> progress, message |-> ""]
ErrorEvent(message) == [type |-> "error", progress |-> -1, message |-> message]
CompleteEvent == [type |-> "complete", progress |-> -1, message |-> ""]

\* mutant: what a failing connection raises leaves broadcast
SendFailureEscapes(connection) == connection = "failing"

\* main.py:256-261: send_json is inside try, "except Exception" takes what it
\* raises and notes the connection as dead
BroadcastRaises(connection) == FALSE

\* main.py:262-263: the dead connection is taken out of active_connections
AfterBroadcast(connection) == IF connection = "failing" THEN "gone" ELSE connection

\* await ws_manager.broadcast(...) in transcribe_full
Broadcast == sink' = AfterBroadcast(sink)

\* an exception leaves transcribe_full (through the executor's with block, if
\* it is inside it) and run_job logs it
Aborted ==
    /\ jpc' = IF jpc = "transcribing" THEN "shutdown" ELSE "returned"
    /\ job_ret' = "raised"
    /\ UNCHANGED <<quiet, sink, jobOut, key_usage, now, cancelled, total_chunks,
                   workers, doneq, results, completed_count, faults, at_cancel>>

\* main.py:842-849: in a thread of the executor asyncio.get_event_loop() finds
\* no loop and raises; "except: pass" takes it
LogFromThreadRaises == FALSE

\* mutant: the progress falls as chunks complete
ProgressFalling(completed, total) == 90 - (85 * completed) \div total

\* main.py:1081  int(5 + (completed_count / total_chunks) * 85)
ProgressAfter(completed, total) == 5 + (85 * completed) \div total

\* mutant: an empty key list passes
SomeKeyAlways(keys) == FALSE

\* main.py:972  not all_keys
NoKeys(keys) == keys = <<>>

\* mutant: an empty chunk list passes
SomeChunkAlways(n) == FALSE

\* main.py:1018  total_chunks == 0
NoChunks(n) == n = 0

\* the futures of the tasks that hold an exception instead of (idx, result)
RaisedInTask(i) == [error |-> TRUE, text |-> <<"<exception>">>, producer |-> i]
IsRaised(result) == result.text = <<"<exception>">>

\* main.py:1474-1476 and 1504-1507: run_job, up to download_audio for a link
\* and up to transcribe_full for an upload
RunJob(kind) ==
    /\ jpc = "queued"
    /\ IF kind = "url" THEN jpc' = "downloading" /\ job_ret' = job_ret
       ELSE IF IsCancelled THEN jpc' = "returned" /\ job_ret' = "not run"
       ELSE jpc' = "start" /\ job_ret' = job_ret
    /\ UNCHANGED <<notJob, jobOut, key_usage, now, cancelled, total_chunks,
                   workers, doneq, results, completed_count, faults, at_cancel>>

\* main.py:459-626 and 1476-1479: download_audio comes back with the path or,
\* after its error event, with None
Download(ok) ==
    /\ jpc = "downloading"
    /\ events' = IF ok THEN events
                 ELSE Append(events, ErrorEvent("Download failed"))
    /\ IF IsCancelled THEN jpc' = "returned" /\ job_ret' = "not run"
       ELSE IF ok THEN jpc' = "start" /\ job_ret' = job_ret
       ELSE jpc' = "returned" /\ job_ret' = "Download failed"
    /\ Broadcast
    /\ UNCHANGED <<quiet, full_text, summary, key_usage, now, cancelled,
                   total_chunks, workers, doneq, results, completed_count,
                   faults, at_cancel>>

\* main.py:966-974
JobStart ==
    /\ jpc = "start"
    /\ IF ~IsCancelled /\ NoKeys(all_keys) /\ BroadcastRaises(sink) THEN Aborted
       ELSE
            /\ IF IsCancelled
               THEN /\ jpc' = "returned" /\ job_ret' = "Cancelled" /\ events' = events
                    /\ sink' = sink
               ELSE IF NoKeys(all_keys)
               THEN /\ jpc' = "returned" /\ job_ret' = "No API keys configured"
                    /\ events' = Append(events, ErrorEvent("No API keys configured"))
                    /\ Broadcast
               ELSE jpc' = "splitting" /\ job_ret' = job_ret /\ events' = events
                    /\ sink' = sink
            /\ UNCHANGED <<quiet, full_text, summary, key_usage, now, cancelled,
                           total_chunks, workers, doneq, results, completed_count,
                           faults, at_cancel>>

\* main.py:1011-1030 and 1067-1071: the chunks come back from split_audio and
\* every process_chunk task is handed to the executor
Split(n) ==
    /\ jpc = "splitting"
    /\ IF BroadcastRaises(sink) THEN Aborted
       ELSE
            /\ Broadcast
            /\ IF NoChunks(n)
               THEN /\ jpc' = "returned" /\ job_ret' = "No chunks generated"
                    /\ events' = Append(events, ErrorEvent("Extracted audio is empty"))
                    /\ UNCHANGED <<total_chunks, workers, results>>
               ELSE /\ jpc' = "transcribing" /\ job_ret' = job_ret
                    /\ events' = Append(events, ProgressEvent(5))
                    /\ total_chunks' = n
                    /\ workers' = [i \in 0..(n - 1) |-> QueuedTask]
                    /\ results' = [i \in 0..(n - 1) |-> NoResult]
            /\ UNCHANGED <<quiet, full_text, summary, key_usage, now, cancelled, doneq,
                           completed_count, faults, at_cancel>>

\* a task returns (idx, result): its future completes
FinishWith(i, res) ==
    /\ workers' = [workers EXCEPT ![i] = FinishedTask]
    /\ doneq' = IF jpc = "transcribing"
                THEN Append(doneq, [idx |-> i, result |-> res]) ELSE doneq

\* task i goes on at pc
GotoWith(i, pc, key, attempt, wake, iters, failure) ==
    /\ workers' = [workers EXCEPT ![i] =
                      [pc |-> pc, key |-> key, attempt |-> attempt, wake |-> wake,
                       iters |-> iters, last |-> failure]]
    /\ doneq' = doneq

Goto(i, pc, key, attempt, wake) ==
    GotoWith(i, pc, key, attempt, wake, workers[i].iters, workers[i].last)

\* main.py:1032-1036: a free thread takes the oldest queued task
StartTask(i) ==
    /\ jpc \in {"transcribing", "shutdown"}
    /\ workers[i].pc = "queued"
    /\ \A j \in Unstarted : i <= j
    /\ Cardinality(Running) < MaxWorkers(paid_keys, free_keys)
    /\ IF IsCancelled THEN FinishWith(i, CancelledResult(i))
       ELSE Goto(i, "tc_top", None, 0, 0)
    /\ UNCHANGED <<notJob, jobOut, key_usage, now, jpc, job_ret, cancelled, total_chunks,
                   results, completed_count, faults, at_cancel>>

\* main.py:823-830: the head of transcribe_chunk's loop, up to the key
\* acquired; a task that went to sleep before coming back here (wake holds
\* the end of its time.sleep) is not scheduled earlier
TcTop(i) ==
    /\ workers[i].pc = "tc_top"
    /\ workers[i].wake = 0
    /\ LET w == workers[i]
           r == GetNextKey(all_keys, paid_keys, free_keys, key_usage, now)
       IN IF w.attempt >= MaxRetries
          THEN /\ FinishWith(i, ErrorResult(i, MaxRetriesExceeded))
               /\ key_usage' = key_usage
          ELSE IF IsCancelled
          THEN FinishWith(i, CancelledResult(i)) /\ key_usage' = key_usage
          ELSE /\ key_usage' = r.usage
               /\ IF r.key = None
                  THEN GotoWith(i, "tc_top", None, w.attempt, now + Seconds(1),
                                w.iters + 1, w.last)
                  ELSE GotoWith(i, "tc_assess", r.key, w.attempt, 0,
                                w.iters + 1, w.last)
    /\ UNCHANGED <<notJob, jobOut, now, jpc, job_ret, cancelled, total_chunks, results,
                   completed_count, faults, at_cancel>>

\* mutant: the sleep outlasts the cooldown
SleepPastCooldown(remaining) == remaining + Seconds(1)

\* main.py:840  time.sleep(min(key_cooldown - now, 2.0))
CooldownSleep(remaining) == Min(remaining, Seconds(2))

\* main.py:832-850: the cooldown assessment of the key acquired, read without
\* key_lock some time after the acquire
TcAssess(i) ==
    /\ workers[i].pc = "tc_assess"
    /\ LET w == workers[i]
           key_cooldown == key_usage[w.key].cooldown_until
       IN IF key_cooldown > now
          THEN IF IsCancelled THEN FinishWith(i, CancelledResult(i))
               ELSE IF LogFromThreadRaises THEN FinishWith(i, RaisedInTask(i))
               ELSE Goto(i, "tc_top", None, w.attempt,
                         now + CooldownSleep(key_cooldown - now))
          ELSE Goto(i, "tc_ready", w.key, w.attempt, 0)
    /\ UNCHANGED <<notJob, jobOut, key_usage, now, jpc, job_ret, cancelled, total_chunks,
                   results, completed_count, faults, at_cancel>>

\* main.py:852-886: httpx.post(".../audio/transcriptions") with the key acquired
TcCall(i) ==
    /\ workers[i].pc = "tc_ready"
    /\ Goto(i, "tc_calling", workers[i].key, workers[i].attempt, 0)
    /\ UNCHANGED <<notJob, jobOut, key_usage, now, jpc, job_ret, cancelled, total_chunks,
                   results, completed_count, faults, at_cancel>>

\* main.py:914-915 and 1038-1065: a 200; with subsegments kept the speaker pass
\* follows, without them the result is returned as transcribed
TcSuccess(i, has_segments) ==
    /\ workers[i].pc = "tc_calling"
    /\ IF has_segments THEN GotoWith(i, "sf_top", None, 0, 0, 0, "none")
       ELSE FinishWith(i, OkResult(i, <<"as transcribed">>))
    /\ UNCHANGED <<notJob, jobOut, key_usage, now, jpc, job_ret, cancelled, total_chunks,
                   results, completed_count, faults, at_cancel>>

\* main.py:888-912: a 429
TcRateLimited(i, response) ==
    /\ workers[i].pc = "tc_calling"
    /\ faults < JMaxFaults
    /\ faults' = faults + 1
    /\ rate_limited' = [n |-> rate_limited.n + 1, response |-> response]
    /\ key_usage' = ReportKeyCooldown(key_usage, workers[i].key,
                                      WaitTime(TcDefaultWait, response), now)
    /\ IF IsCancelled THEN FinishWith(i, CancelledResult(i))
       ELSE GotoWith(i, "tc_top", None, workers[i].attempt + 1, now + Seconds(1),
                     workers[i].iters, "429")
    /\ UNCHANGED <<calm, sink, jobOut, now, jpc, job_ret, cancelled, total_chunks, results,
                   completed_count, at_cancel>>

\* main.py:917-928: the call raised (time-out, connection, raise_for_status)
TcException(i) ==
    /\ workers[i].pc = "tc_calling"
    /\ faults < JMaxFaults
    /\ faults' = faults + 1
    /\ IF IsCancelled THEN FinishWith(i, CancelledResult(i))
       ELSE IF workers[i].attempt + 1 < MaxRetries
       THEN GotoWith(i, "tc_top", None, workers[i].attempt + 1, now + Seconds(2),
                     workers[i].iters, "exception")
       ELSE FinishWith(i, ErrorResult(i, CouldNotTranscribe))
    /\ UNCHANGED <<notJob, jobOut, key_usage, now, jpc, job_ret, cancelled, total_chunks,
                   results, completed_count, at_cancel>>

\* main.py:733-759: the head of smart_format_chunk_sync's loop; the key acquired
\* is used at once
SfTop(i) ==
    /\ workers[i].pc = "sf_top"
    /\ workers[i].wake = 0
    /\ LET w == workers[i]
           r == GetNextKey(all_keys, paid_keys, free_keys, key_usage, now)
       IN IF w.attempt >= MaxFormatAttempts
          THEN FinishWith(i, OkResult(i, <<"unlabelled">>)) /\ key_usage' = key_usage
          ELSE IF IsCancelled
          THEN FinishWith(i, OkResult(i, <<"raw_text_to_process">>))
               /\ key_usage' = key_usage
          ELSE /\ key_usage' = r.usage
               /\ IF r.key = None
                  THEN GotoWith(i, "sf_top", None, w.attempt, now + Seconds(1),
                                w.iters + 1, w.last)
                  ELSE GotoWith(i, "sf_calling", r.key, w.attempt, 0,
                                w.iters + 1, w.last)
    /\ UNCHANGED <<notJob, jobOut, now, jpc, job_ret, cancelled, total_chunks, results,
                   completed_count, faults, at_cancel>>

\* main.py:778-785 and 796-815: a 200 with a speaker map that parses
SfSuccess(i) ==
    /\ workers[i].pc = "sf_calling"
    /\ FinishWith(i, OkResult(i, <<"labelled">>))
    /\ UNCHANGED <<notJob, jobOut, key_usage, now, jpc, job_ret, cancelled, total_chunks,
                   results, completed_count, faults, at_cancel>>

\* main.py:760-777: a 429
SfRateLimited(i, response) ==
    /\ workers[i].pc = "sf_calling"
    /\ faults < JMaxFaults
    /\ faults' = faults + 1
    /\ rate_limited' = [n |-> rate_limited.n + 1, response |-> response]
    /\ key_usage' = ReportKeyCooldown(key_usage, workers[i].key,
                                      WaitTime(SfDefaultWait, response), now)
    /\ Goto(i, "sf_top", None, workers[i].attempt + 1, now + Seconds(1))
    /\ UNCHANGED <<calm, sink, jobOut, now, jpc, job_ret, cancelled, total_chunks, results,
                   completed_count, at_cancel>>

\* main.py:786-789: a 200 whose content does not parse
SfBadJson(i) ==
    /\ workers[i].pc = "sf_calling"
    /\ faults < JMaxFaults
    /\ faults' = faults + 1
    /\ Goto(i, "sf_top", None, workers[i].attempt + 1, 0)
    /\ UNCHANGED <<notJob, jobOut, key_usage, now, jpc, job_ret, cancelled, total_chunks,
                   results, completed_count, at_cancel>>

\* main.py:760-778: a status that is neither 429 nor 200: the loop goes round
\* with attempt as it was and without a sleep
SfOtherStatus(i) ==
    /\ workers[i].pc = "sf_calling"
    /\ faults < JMaxFaults
    /\ faults' = faults + 1
    /\ Goto(i, "sf_top", None, workers[i].attempt, 0)
    /\ UNCHANGED <<notJob, jobOut, key_usage, now, jpc, job_ret, cancelled, total_chunks,
                   results, completed_count, at_cancel>>

\* main.py:790-794: the call raised
SfException(i) ==
    /\ workers[i].pc = "sf_calling"
    /\ faults < JMaxFaults
    /\ faults' = faults + 1
    /\ Goto(i, "sf_top", None, workers[i].attempt + 1, now + Seconds(2))
    /\ UNCHANGED <<notJob, jobOut, key_usage, now, jpc, job_ret, cancelled, total_chunks,
                   results, completed_count, at_cancel>>

\* mutant: the result is stored in completion order
StoreResultInCompletionOrder(res, idx, count, result) ==
    [res EXCEPT ![count] = result]

\* main.py:1079  results[idx] = result
StoreResult(res, idx, count, result) == [res EXCEPT ![idx] = result]

\* mutant: the scheduler takes each result without looking at the cancelled set
ResultsTakenUnchecked == FALSE

\* main.py:1075  if job_id in self.cancelled_jobs, asked at every result
CancelledAtResult == IsCancelled

\* main.py:1073-1086: asyncio.as_completed hands over the next finished task;
\* awaiting a task that raised raises in transcribe_full
Collect ==
    /\ jpc = "transcribing"
    /\ doneq # <<>>
    /\ IF ~IsRaised(Head(doneq).result) /\ BroadcastRaises(sink) THEN Aborted
       ELSE
            /\ IF IsRaised(Head(doneq).result)
               THEN /\ jpc' = "shutdown" /\ job_ret' = "raised"
                    /\ doneq' = <<>>
                    /\ UNCHANGED <<results, completed_count, events, sink>>
               ELSE IF CancelledAtResult
               THEN /\ jpc' = "shutdown" /\ job_ret' = "Cancelled"
                    /\ doneq' = <<>>
                    /\ events' = Append(events, ErrorEvent("Job cancelled by user."))
                    /\ Broadcast
                    /\ UNCHANGED <<results, completed_count>>
               ELSE /\ results' = StoreResult(results, Head(doneq).idx, completed_count,
                                              Head(doneq).result)
                    /\ completed_count' = completed_count + 1
                    /\ doneq' = Tail(doneq)
                    /\ events' = Append(events, ProgressEvent(
                                     ProgressAfter(completed_count + 1, total_chunks)))
                    /\ jpc' = IF completed_count + 1 = total_chunks
                              THEN "combining" ELSE "transcribing"
                    /\ job_ret' = job_ret
                    /\ Broadcast
            /\ UNCHANGED <<quiet, full_text, summary, key_usage, now, cancelled,
                           total_chunks, workers, faults, at_cancel>>

\* mutant: the executor is left without waiting for its tasks
NoTaskAwaited == TRUE

\* mutant: the executor is shut down with wait=False
ShutdownWithoutWait == TRUE

\* ThreadPoolExecutor.__exit__: shutdown(wait=True)
AllTasksDone == \A i \in Idxs : workers[i].pc = "finished"

\* main.py:1067: leaving the with block waits for every task of the executor
Shutdown ==
    /\ jpc = "shutdown"
    /\ AllTasksDone
    /\ jpc' = "returned"
    /\ UNCHANGED <<notJob, jobOut, key_usage, now, job_ret, cancelled, total_chunks,
                   workers, doneq, results, completed_count, faults, at_cancel>>

\* the results list, as a sequence
ResultList == [k \in 1..total_chunks |-> results[k - 1]]

\* main.py:1088-1132: the transcript is combined and post-processed (the
\* company name is "Meeting", so that keywords is ""), the files are written
\* and _generate_executive_summary is handed to the default executor
Combine ==
    /\ jpc = "combining"
    /\ IF BroadcastRaises(sink) THEN Aborted
       ELSE
            /\ Broadcast
            /\ jpc' = "rendering"
            /\ full_text' = PostProcessTranscript(CombineResults(ResultList), "")
            /\ summary' = [pc |-> "top", key |-> None, attempt |-> 0, wake |-> 0]
            /\ UNCHANGED <<quiet, events, key_usage, now, job_ret, cancelled,
                           total_chunks, workers, doneq, results, completed_count,
                           faults, at_cancel>>

SummaryGoto(pc, key, attempt, wake) ==
    summary' = [pc |-> pc, key |-> key, attempt |-> attempt, wake |-> wake]

\* main.py:1312-1320: the head of _generate_executive_summary's loop
SummaryTop ==
    /\ summary.pc = "top"
    /\ summary.wake = 0
    /\ LET r == GetNextKey(all_keys, paid_keys, free_keys, key_usage, now)
       IN IF summary.attempt >= MaxSummaryAttempts
          THEN SummaryGoto("could not", None, 0, 0) /\ key_usage' = key_usage
          ELSE IF IsCancelled
          THEN SummaryGoto("empty", None, 0, 0) /\ key_usage' = key_usage
          ELSE /\ key_usage' = r.usage
               /\ IF r.key = None
                  THEN SummaryGoto("top", None, summary.attempt, now + Seconds(1))
                  ELSE SummaryGoto("calling", r.key, summary.attempt, 0)
    /\ UNCHANGED <<notJob, events, full_text, now, jpc, job_ret, cancelled,
                   total_chunks, workers, doneq, results, completed_count,
                   faults, at_cancel>>

\* main.py:1345-1346: a 200 whose content is there
SummarySuccess ==
    /\ summary.pc = "calling"
    /\ SummaryGoto("written", None, 0, 0)
    /\ UNCHANGED <<notJob, events, full_text, key_usage, now, jpc, job_ret,
                   cancelled, total_chunks, workers, doneq, results,
                   completed_count, faults, at_cancel>>

\* main.py:1340-1343: a 429; the pool is not told
SummaryRateLimited ==
    /\ summary.pc = "calling"
    /\ faults < JMaxFaults
    /\ faults' = faults + 1
    /\ SummaryGoto("top", None, summary.attempt + 1, now + Seconds(2))
    /\ UNCHANGED <<notJob, events, full_text, key_usage, now, jpc, job_ret,
                   cancelled, total_chunks, workers, doneq, results,
                   completed_count, at_cancel>>

\* main.py:1340-1346: a status that is neither 429 nor 200: the loop goes
\* round with attempt as it was and without a sleep
SummaryOtherStatus ==
    /\ summary.pc = "calling"
    /\ faults < JMaxFaults
    /\ faults' = faults + 1
    /\ SummaryGoto("top", None, summary.attempt, 0)
    /\ UNCHANGED <<notJob, events, full_text, key_usage, now, jpc, job_ret,
                   cancelled, total_chunks, workers, doneq, results,
                   completed_count, at_cancel>>

\* main.py:1347-1349: the call raised, or the 200 had no content to read
SummaryException ==
    /\ summary.pc = "calling"
    /\ faults < JMaxFaults
    /\ faults' = faults + 1
    /\ SummaryGoto("top", None, summary.attempt + 1, now + Seconds(2))
    /\ UNCHANGED <<notJob, events, full_text, key_usage, now, jpc, job_ret,
                   cancelled, total_chunks, workers, doneq, results,
                   completed_count, at_cancel>>

SummaryReturned == summary.pc \in {"written", "empty", "could not"}

\* main.py:1133-1207: the summary is back; bundle, progress 100, history and
\* the complete event
Complete ==
    /\ jpc = "rendering"
    /\ SummaryReturned
    /\ IF BroadcastRaises(sink) THEN Aborted
       ELSE
            /\ Broadcast
            /\ events' = events \o <<ProgressEvent(100), CompleteEvent>>
            /\ jpc' = "returned"
            /\ job_ret' = "completed"
            /\ UNCHANGED <<quiet, full_text, summary, key_usage, now, cancelled,
                           total_chunks, workers, doneq, results, completed_count,
                           faults, at_cancel>>

\* main.py:1454-1458: the cancel message of the websocket
Cancel ==
    /\ ~cancelled
    /\ jpc \notin {"returned", "shutdown"}
    /\ cancelled' = TRUE
    /\ at_cancel' = [phase |-> jpc, unstarted |-> Unstarted]
    /\ Broadcast
    /\ UNCHANGED <<quiet, jobOut, key_usage, now, jpc, job_ret, total_chunks, workers,
                   doneq, results, completed_count, faults>>

\* a second passes while a task sleeps or a key is in cooldown; a sleep that
\* is over leaves no trace in the task
JTick ==
    /\ now < JMaxTime
    /\ \/ \E i \in Idxs : workers[i].wake > now
       \/ summary.wake > now
       \/ \E k \in DOMAIN key_usage : key_usage[k].cooldown_until > now
    /\ now' = now + 1
    /\ workers' = [i \in Idxs |->
                      IF workers[i].wake <= now + 1
                      THEN [workers[i] EXCEPT !.wake = 0] ELSE workers[i]]
    /\ summary' = IF summary.wake <= now + 1
                  THEN [summary EXCEPT !.wake = 0] ELSE summary
    /\ UNCHANGED <<notJob, events, full_text, key_usage, jpc, job_ret, cancelled,
                   total_chunks, doneq, results, completed_count, faults,
                   at_cancel>>

JobKinds == {"url", "upload"}

Next ==
    \/ \E kind \in JobKinds : RunJob(kind)
    \/ \E ok \in BOOLEAN : Download(ok)
    \/ JobStart
    \/ \E n \in 0..JMaxChunks : Split(n)
    \/ \E i \in Idxs : StartTask(i)
    \/ \E i \in Idxs : TcTop(i)
    \/ \E i \in Idxs : TcAssess(i)
    \/ \E i \in Idxs : TcCall(i)
    \/ \E i \in Idxs, has_segments \in BOOLEAN : TcSuccess(i, has_segments)
    \/ \E i \in Idxs, response \in RateLimitResponses : TcRateLimited(i, response)
    \/ \E i \in Idxs : TcException(i)
    \/ \E i \in Idxs : SfTop(i)
    \/ \E i \in Idxs : SfSuccess(i)
    \/ \E i \in Idxs, response \in RateLimitResponses : SfRateLimited(i, response)
    \/ \E i \in Idxs : SfBadJson(i)
    \/ \E i \in Idxs : SfOtherStatus(i)
    \/ \E i \in Idxs : SfException(i)
    \/ Collect
    \/ Shutdown
    \/ Combine
    \/ SummaryTop
    \/ SummarySuccess
    \/ SummaryRateLimited
    \/ SummaryOtherStatus
    \/ SummaryException
    \/ Complete
    \/ Cancel
    \/ JTick

\* every 200 of the transcription service has the shape process_chunk reads
Spec == InitJob /\ [][Next]_vars

\* main.py:1042-1055 and 1058: a 200 whose JSON is not what process_chunk
\* reads (a segment with "text" but no "start", a text that is null, a body
\* that is no object): segment["start"], .strip() or result.get raises, and
\* the task's future holds the exception
TcMalformed(i) ==
    /\ workers[i].pc = "tc_calling"
    /\ faults < JMaxFaults
    /\ faults' = faults + 1
    /\ FinishWith(i, RaisedInTask(i))
    /\ UNCHANGED <<notJob, jobOut, key_usage, now, jpc, job_ret, cancelled,
                   total_chunks, results, completed_count, at_cancel>>

NextAnyResponse == Next \/ \E i \in Idxs : TcMalformed(i)

\* the 200s of the transcription service are any JSON
SpecAnyResponse == InitJob /\ [][NextAnyResponse]_vars

\* the client goes away without closing: the next send to it raises
Break ==
    /\ sink = "connected"
    /\ sink' = "failing"
    /\ UNCHANGED <<quiet, jobOut, key_usage, now, jpc, job_ret, cancelled,
                   total_chunks, workers, doneq, results, completed_count,
                   faults, at_cancel>>

\* main.py:246-248: a client connects
Connect ==
    /\ sink = "gone"
    /\ sink' = "connected"
    /\ UNCHANGED <<quiet, jobOut, key_usage, now, jpc, job_ret, cancelled,
                   total_chunks, workers, doneq, results, completed_count,
                   faults, at_cancel>>

NextAnySink == Next \/ Break \/ Connect

\* a job of an installation with no key or with one paid key
InitJobOneKey == InitJob /\ Len(paid_keys) <= 1 /\ free_keys = <<>>

\* the connection to the client may fail and come back at any time
SpecAnySink == InitJobOneKey /\ [][NextAnySink]_vars

\* ============================================================ SpecTwoJobs
\* Two jobs of one engine: they share cancelled_jobs and the key pool. Each
\* job has one chunk; its task goes through transcribe_chunk and
\* smart_format_chunk_sync as the tasks of Spec do, with the answers drawn
\* from success and 429.

JobIds == {"A", "B"}
TMaxTime == 2

\* mutant: any cancelled job counts as this one
AnyJobCancelled(job_id, cancelled_set) == cancelled_set # {}

\* main.py:734, 824, 837, 907, 922, 966, 1033, 1075, 1506
\*   job_id in self.cancelled_jobs
InCancelledJobs(job_id, cancelled_set) == job_id \in cancelled_set

restOfEngine == <<reserve, harnessVars, mergeVars, paid_keys, free_keys, jobCore,
                  full_text, rate_limited, sink, sizing>>

InitTwoJobs ==
    /\ paid_keys \in {PaidList(n) : n \in 1..JMaxKeys}
    /\ free_keys = <<>>
    /\ key_usage = EmptyUsage
    /\ now = 0
    /\ reserve = NoReserve
    /\ IdleHarness
    /\ IdleMerge
    /\ IdleJob

NewJob == [pc |-> "queued", ret |-> "none", task |-> "none", key |-> None,
           attempt |-> 0, wake |-> 0, result |-> NoResult]

Started == DOMAIN jobs

\* job j goes on with its scheduler at pc
JobGoto(j, pc, ret) == jobs' = [jobs EXCEPT ![j].pc = pc, ![j].ret = ret]

\* the task of job j goes on at task
TaskGoto(j, task, key, attempt, wake) ==
    jobs' = [jobs EXCEPT ![j].task = task, ![j].key = key,
                         ![j].attempt = attempt, ![j].wake = wake]

\* the task of job j returns (0, res)
TaskFinish(j, res) ==
    jobs' = [jobs EXCEPT ![j].task = "finished", ![j].key = None,
                         ![j].wake = 0, ![j].result = res]

\* main.py:1496-1511: upload_file draws a job id and schedules run_job
Upload(j) ==
    /\ j \notin Started
    /\ jobs' = [k \in Started \cup {j} |-> IF k = j THEN NewJob ELSE jobs[k]]
    /\ UNCHANGED <<restOfEngine, key_usage, now, cancelled_jobs>>

\* main.py:1504-1508: run_job of an upload
TwoRunJob(j) ==
    /\ j \in Started
    /\ jobs[j].pc = "queued"
    /\ IF InCancelledJobs(j, cancelled_jobs) THEN JobGoto(j, "returned", "not run")
       ELSE JobGoto(j, "start", "none")
    /\ UNCHANGED <<restOfEngine, key_usage, now, cancelled_jobs>>

\* main.py:964-1070: transcribe_full up to the submission of the one task
TwoJobStart(j) ==
    /\ j \in Started
    /\ jobs[j].pc = "start"
    /\ IF InCancelledJobs(j, cancelled_jobs) THEN JobGoto(j, "returned", "Cancelled")
       ELSE jobs' = [jobs EXCEPT ![j].pc = "transcribing", ![j].task = "queued"]
    /\ UNCHANGED <<restOfEngine, key_usage, now, cancelled_jobs>>

\* main.py:1032-1036: process_chunk begins
TwoStartTask(j) ==
    /\ j \in Started
    /\ jobs[j].task = "queued"
    /\ IF InCancelledJobs(j, cancelled_jobs) THEN TaskFinish(j, CancelledResult(0))
       ELSE TaskGoto(j, "tc_top", None, 0, 0)
    /\ UNCHANGED <<restOfEngine, key_usage, now, cancelled_jobs>>

\* main.py:823-831: the head of transcribe_chunk's loop
TwoTcTop(j) ==
    /\ j \in Started
    /\ jobs[j].task = "tc_top"
    /\ jobs[j].wake <= now
    /\ LET r == GetNextKey(all_keys, paid_keys, free_keys, key_usage, now)
       IN IF jobs[j].attempt >= MaxRetries
          THEN TaskFinish(j, ErrorResult(0, MaxRetriesExceeded)) /\ key_usage' = key_usage
          ELSE IF InCancelledJobs(j, cancelled_jobs)
          THEN TaskFinish(j, CancelledResult(0)) /\ key_usage' = key_usage
          ELSE /\ key_usage' = r.usage
               /\ IF r.key = None
                  THEN TaskGoto(j, "tc_top", None, jobs[j].attempt, now + Seconds(1))
                  ELSE TaskGoto(j, "tc_assess", r.key, jobs[j].attempt, 0)
    /\ UNCHANGED <<restOfEngine, now, cancelled_jobs>>

\* main.py:832-850: the cooldown assessment of the key acquired
TwoTcAssess(j) ==
    /\ j \in Started
    /\ jobs[j].task = "tc_assess"
    /\ LET key_cooldown == key_usage[jobs[j].key].cooldown_until
       IN IF key_cooldown > now
          THEN IF InCancelledJobs(j, cancelled_jobs)
               THEN TaskFinish(j, CancelledResult(0))
               ELSE TaskGoto(j, "tc_top", None, jobs[j].attempt,
                             now + CooldownSleep(key_cooldown - now))
          ELSE TaskGoto(j, "tc_calling", jobs[j].key, jobs[j].attempt, 0)
    /\ UNCHANGED <<restOfEngine, key_usage, now, cancelled_jobs>>

\* main.py:914-915 and 1038-1059: a 200 with subsegments
TwoTcSuccess(j) ==
    /\ j \in Started
    /\ jobs[j].task = "tc_calling"
    /\ TaskGoto(j, "sf_top", None, 0, 0)
    /\ UNCHANGED <<restOfEngine, key_usage, now, cancelled_jobs>>

\* main.py:888-912: a 429 without a hint
TwoTcRateLimited(j) ==
    /\ j \in Started
    /\ jobs[j].task = "tc_calling"
    /\ key_usage' = ReportKeyCooldown(key_usage, jobs[j].key, TcDefaultWait, now)
    /\ IF InCancelledJobs(j, cancelled_jobs) THEN TaskFinish(j, CancelledResult(0))
       ELSE TaskGoto(j, "tc_top", None, jobs[j].attempt + 1, now + Seconds(1))
    /\ UNCHANGED <<restOfEngine, now, cancelled_jobs>>

\* main.py:733-759: the head of smart_format_chunk_sync's loop
TwoSfTop(j) ==
    /\ j \in Started
    /\ jobs[j].task = "sf_top"
    /\ jobs[j].wake <= now
    /\ LET r == GetNextKey(all_keys, paid_keys, free_keys, key_usage, now)
       IN IF jobs[j].attempt >= MaxFormatAttempts
          THEN TaskFinish(j, OkResult(0, <<"unlabelled">>)) /\ key_usage' = key_usage
          ELSE IF InCancelledJobs(j, cancelled_jobs)
          THEN TaskFinish(j, OkResult(0, <<"raw_text_to_process">>))
               /\ key_usage' = key_usage
          ELSE /\ key_usage' = r.usage
               /\ IF r.key = None
                  THEN TaskGoto(j, "sf_top", None, jobs[j].attempt, now + Seconds(1))
                  ELSE TaskGoto(j, "sf_calling", r.key, jobs[j].attempt, 0)
    /\ UNCHANGED <<restOfEngine, now, cancelled_jobs>>

\* main.py:778-785 and 796-815: a 200 with a speaker map that parses
TwoSfSuccess(j) ==
    /\ j \in Started
    /\ jobs[j].task = "sf_calling"
    /\ TaskFinish(j, OkResult(0, <<"labelled">>))
    /\ UNCHANGED <<restOfEngine, key_usage, now, cancelled_jobs>>

\* main.py:760-777: a 429 without a hint
TwoSfRateLimited(j) ==
    /\ j \in Started
    /\ jobs[j].task = "sf_calling"
    /\ key_usage' = ReportKeyCooldown(key_usage, jobs[j].key, SfDefaultWait, now)
    /\ TaskGoto(j, "sf_top", None, jobs[j].attempt + 1, now + Seconds(1))
    /\ UNCHANGED <<restOfEngine, now, cancelled_jobs>>

\* main.py:1073-1086 and 1088-1205: the result of the one task is awaited; the
\* job is cancelled, or its one result is stored and the job goes on to
\* combine, render and complete
TwoCollect(j) ==
    /\ j \in Started
    /\ jobs[j].pc = "transcribing"
    /\ jobs[j].task = "finished"
    /\ IF InCancelledJobs(j, cancelled_jobs) THEN JobGoto(j, "returned", "Cancelled")
       ELSE JobGoto(j, "returned", "completed")
    /\ UNCHANGED <<restOfEngine, key_usage, now, cancelled_jobs>>

\* main.py:1454-1458: a client sends {"type": "cancel", "job_id": ...}
CancelJob(j) ==
    /\ cancelled_jobs' = cancelled_jobs \cup {j}
    /\ j \notin cancelled_jobs
    /\ UNCHANGED <<restOfEngine, key_usage, now, jobs>>

\* a second passes
TwoTick ==
    /\ now < TMaxTime
    /\ now' = now + 1
    /\ UNCHANGED <<restOfEngine, key_usage, cancelled_jobs, jobs>>

NextTwoJobs ==
    \/ \E j \in JobIds :
          \/ Upload(j)
          \/ TwoRunJob(j)
          \/ TwoJobStart(j)
          \/ TwoStartTask(j)
          \/ TwoTcTop(j)
          \/ TwoTcAssess(j)
          \/ TwoTcSuccess(j)
          \/ TwoTcRateLimited(j)
          \/ TwoSfTop(j)
          \/ TwoSfSuccess(j)
          \/ TwoSfRateLimited(j)
          \/ TwoCollect(j)
          \/ CancelJob(j)
    \/ TwoTick

SpecTwoJobs == InitTwoJobs /\ [][NextTwoJobs]_vars

\* ================================================================= claims

Configured == Range(AllConfigured(paid_keys, free_keys))
Primaries == Range(PrimaryKeys(paid_keys, free_keys))
Backups == Range(BackupKeys(free_keys))
CooldownUntil(k) == IF k \in DOMAIN key_usage THEN key_usage[k].cooldown_until ELSE 0
Calls(k) == IF k \in DOMAIN key_usage THEN key_usage[k].calls ELSE 0
InCooldown(k) == now < CooldownUntil(k)

\* C2: acquire returns a backup (reserve) key only when every primary key is in
\* cooldown at the time of the call.
C2_PrimaryBeforeBackup ==
    (last.op = "acquire" /\ last.key \in Backups)
        => \A k \in Primaries : InCooldown(k)

\* the reserve has served a call, the primary key has come back, and the next
\* acquire returns the primary key although the backup key is free too
C2_Witness ==
    /\ last.op = "acquire"
    /\ last.key \in Primaries
    /\ \E b \in Backups : ~InCooldown(b) /\ Calls(b) > 0

\* C3 (as stated): once cooldown(A, d) was called at t, no acquire returns A
\* before t + d.
C3_NeverReturnedInCooldown ==
    (last.op = "acquire" /\ last.key # None) => now >= deadline[last.key]

\* C3 (amended): before t + d, acquire returns A only when every configured key is
\* in cooldown, and then A's expiry is the soonest.
C3_ReturnedInCooldownOnlyAsFallback ==
    (last.op = "acquire" /\ last.key # None /\ now < deadline[last.key])
        => \A k \in Configured :
              now < deadline[k] /\ deadline[last.key] <= deadline[k]

\* a key is in a reported cooldown and acquire has returned another key
C3_Witness ==
    /\ last.op = "acquire"
    /\ last.key # None
    /\ \E k \in Configured : now < deadline[k] /\ last.key # k

\* C5: with every key primary, no cooldown reported and no counter reset, the
\* rolling call counts of any two keys differ by at most 1.
C5_Balanced ==
    (Backups = {} /\ ~everReset /\ \A k \in Configured : deadline[k] = 0)
        => \A k1, k2 \in Configured : Calls(k1) - Calls(k2) <= 1

\* three acquires shared by two primary keys
C5_Witness ==
    /\ Backups = {} /\ ~everReset /\ \A k \in Configured : deadline[k] = 0
    /\ Cardinality(Configured) = 2
    /\ acquires = 3
    /\ \E k1, k2 \in Configured : Calls(k1) = 2 /\ Calls(k2) = 1

\* C6: the reserve holds 0 keys for 0 or 1 free keys, 1 key for 2 free keys and
\* 1 key for 4 free keys.
C6_ReserveSizes ==
    reserve.computed =>
        /\ Len(free_keys) = 0 => Len(reserve.backup_keys) = 0
        /\ Len(free_keys) = 1 => Len(reserve.backup_keys) = 0
        /\ Len(free_keys) = 2 => Len(reserve.backup_keys) = 1
        /\ Len(free_keys) = 4 => Len(reserve.backup_keys) = 1

C6_Witness ==
    reserve.computed /\ Len(free_keys) = 4 /\ Len(reserve.backup_keys) = 1

CeilQuarter(n) == (n + 3) \div 4

\* C7 (as stated): for n >= 2 free keys the reserve is the last ceil(0.25 * n)
\* keys and the primary free subset the remaining prefix; for n = 1 it is empty.
C7_ReserveIsLastCeilQuarter ==
    reserve.computed =>
        LET n == Len(free_keys)
        IN /\ n >= 2 => /\ reserve.backup_keys = LastN(free_keys, CeilQuarter(n))
                        /\ reserve.primary_free = DropLastN(free_keys, CeilQuarter(n))
           /\ n = 1 => reserve.backup_keys = <<>>

\* C7 (amended): for n >= 2 free keys the reserve is the last max(1, floor(0.25 * n))
\* keys and the primary free subset the remaining prefix; for n = 1 it is empty.
C7_ReserveIsLastFloorQuarter ==
    reserve.computed =>
        LET n == Len(free_keys)
            m == IF n \div 4 >= 1 THEN n \div 4 ELSE 1
        IN /\ n >= 2 => /\ reserve.backup_keys = LastN(free_keys, m)
                        /\ reserve.primary_free = DropLastN(free_keys, m)
           /\ n = 1 => reserve.backup_keys = <<>> /\ reserve.primary_free = free_keys

\* five free keys: one is reserved, where ceil(1.25) would reserve two
C7_Witness ==
    reserve.computed /\ Len(free_keys) = 5 /\ reserve.backup_keys = <<<<"free", 5>>>>

\* C8: acquire returns none only for an empty pool; with every configured key in
\* cooldown it returns a key whose cooldown_until is the least of all.
C8_Fallback ==
    last.op = "acquire" =>
        /\ last.key = None => Configured = {}
        /\ (Configured # {} /\ \A k \in Configured : InCooldown(k))
              => /\ last.key \in Configured
                 /\ \A k \in Configured : CooldownUntil(last.key) <= CooldownUntil(k)

\* two keys in cooldown with different expiries, and an acquire answered
C8_Witness ==
    /\ last.op = "acquire"
    /\ \A k \in Configured : InCooldown(k)
    /\ \E k1, k2 \in Configured : CooldownUntil(k1) < CooldownUntil(k2)

\* the merged output without its header lines: a line that starts with a marker
\* is dropped up to and including its newline
RECURSIVE SkipLine(_)
RECURSIVE RemoveHeaderLines(_, _)
SkipLine(t) ==
    IF t = <<>> THEN <<>>
    ELSE IF Head(t) = "\n" THEN RemoveHeaderLines(Tail(t), TRUE)
    ELSE SkipLine(Tail(t))
RemoveHeaderLines(t, atLineStart) ==
    IF t = <<>> THEN <<>>
    ELSE IF atLineStart /\ Head(t) \in {"[SPEAKER]", "[TIME]"} THEN SkipLine(t)
    ELSE <<Head(t)>> \o RemoveHeaderLines(Tail(t), Head(t) = "\n")

RECURSIVE ConcatTexts(_)
ConcatTexts(data) ==
    IF data = <<>> THEN <<>> ELSE Head(data).text \o ConcatTexts(Tail(data))

NonSpace(t) == SelectSeq(t, LAMBDA c : ~IsSpace(c))

\* the output is the texts of data, verbatim and in order, with nothing but white
\* space before, between and after them (a kept text starts and ends with a
\* character that is no white space)
RECURSIVE TextsInOrder(_, _)
TextsInOrder(out, data) ==
    IF data = <<>> THEN LStrip(out) = <<>>
    ELSE LET o == LStrip(out)
             t == Head(data).text
         IN /\ Len(o) >= Len(t)
            /\ SubSeq(o, 1, Len(t)) = t
            /\ TextsInOrder(SubSeq(o, Len(t) + 1, Len(o)), Tail(data))

\* C10: the merged output with its header lines removed is the subsegment texts
\* in id order, each verbatim: merge inserts header lines (and the white space
\* that separates two texts) and never drops, reorders, duplicates or edits a
\* subsegment text.
C10_TextsVerbatim ==
    mstage = "merged" =>
        TextsInOrder(RemoveHeaderLines(final_text, TRUE), segments_data)

\* C10, read to the letter: the merged output with its header lines removed equals
\* the concatenation of the subsegment texts in id order.
C10_MergeIsConcatenation ==
    mstage = "merged" =>
        RemoveHeaderLines(final_text, TRUE) = ConcatTexts(segments_data)

\* what does hold of the overlay: the characters other than spaces and newlines
\* are those of the subsegment texts, in the same order
MergeKeepsEveryCharacter ==
    mstage = "merged" =>
        NonSpace(RemoveHeaderLines(final_text, TRUE))
            = NonSpace(ConcatTexts(segments_data))

\* ------------------------------------------------- the assembled transcript

\* the words of a text as the final transcript shows them: white space apart,
\* a financial term or a speaker tag in its canonical case, the Whisper prompt
\* string gone
CanonicalWord(tok) ==
    IF tok \in {"ebitda", "Ebitda"} THEN "EBITDA"
    ELSE IF tok \in {"speaker 1", "SPEAKER 1"} THEN "Speaker 1"
    ELSE tok
ShownWords(t) ==
    LET words == NonSpace(t)
        canon == [k \in 1..Len(words) |-> CanonicalWord(words[k])]
    IN SelectSeq(canon, LAMBDA tok : tok # PromptStr)

\* what the transcript must show for one result: its text, or one marker
\* carrying its error text
ShownForResult(r) ==
    IF r.error THEN <<WarningPrefix>> \o r.text \o <<"]">> ELSE ShownWords(r.text)
RECURSIVE ShownForResults(_)
ShownForResults(rs) ==
    IF rs = <<>> THEN <<>>
    ELSE ShownForResult(Head(rs)) \o ShownForResults(Tail(rs))

CountOf(t, tok) == Len(SelectSeq(t, LAMBDA x : x = tok))
ErrorCount(rs) == Len(SelectSeq(rs, LAMBDA r : r.error))

\* C11: the final transcript holds, in the order of the chunk indexes, the text
\* of every chunk that succeeded and exactly one warning marker for every chunk
\* that ended in an error, whichever chunks failed.
C11_MarkerPerFailedChunk ==
    mstage = "assembled" =>
        /\ NonSpace(full_text) = ShownForResults(JobResults)
        /\ CountOf(full_text, WarningPrefix) = ErrorCount(JobResults)

\* the chunk before failed, this one and the one after it succeeded
C11_Witness ==
    /\ mstage = "assembled"
    /\ siblings.before # <<>> /\ siblings.before[1].error
    /\ siblings.after # <<>> /\ ~siblings.after[1].error
    /\ segments_data # <<>>
    /\ CountOf(full_text, WarningPrefix) = 1

\* the words of the subsegments kept of this chunk (of the whole response when
\* none was kept), in order
ChunkWords ==
    IF segments_data # <<>> THEN NonSpace(ConcatTexts(segments_data))
    ELSE NonSpace(WhisperText(raw_segments))

\* the transcript without header lines, white space apart
TranscriptWords == NonSpace(RemoveHeaderLines(full_text, TRUE))

\* C12 (as stated): every transcribed word is in the final transcript once, in
\* order and unaltered.
C12_WordsUnaltered ==
    mstage = "assembled" =>
        TranscriptWords = ShownForResults(siblings.before) \o ChunkWords
                            \o ShownForResults(siblings.after)

\* C12 (amended): every transcribed word is in the final transcript once and in
\* order, except that post-processing puts the financial terms and speaker
\* tags it knows in its own case and deletes every occurrence of the Whisper
\* prompt string.
C12_WordsKeptUpToPostProcessing ==
    mstage = "assembled" =>
        TranscriptWords = ShownForResults(siblings.before) \o ShownWords(ChunkWords)
                            \o ShownForResults(siblings.after)

\* a subsegment that says "ebitda" has gone through the overlay and assembly
C12_Witness ==
    /\ mstage = "assembled"
    /\ \E k \in 1..Len(segments_data) : segments_data[k].text = <<"ebitda">>
    /\ CountOf(full_text, "EBITDA") >= 1

\* ------------------------------------------------------------ the job

\* task i sends a request to the external service in this step
IssuesCall(i) ==
    /\ workers[i].pc \notin {"tc_calling", "sf_calling"}
    /\ workers'[i].pc \in {"tc_calling", "sf_calling"}

\* C1: for every completion order of the tasks the results list has one slot
\* per segment, a filled slot i holds the result that the task of segment i
\* produced, every slot is filled when the results are combined, and a filled
\* slot is never written again.
C1_ResultsByIndex ==
    /\ [](/\ DOMAIN results = Idxs
          /\ \A i \in Idxs : results[i] # NoResult => results[i].producer = i
          /\ jpc = "combining" => \A i \in Idxs : results[i] # NoResult)
    /\ [][\A i \in Idxs : results[i] # NoResult => results'[i] = results[i]]_vars

\* the task of segment 1 has completed and been collected before that of
\* segment 0
C1_Witness ==
    /\ total_chunks = 2
    /\ results[0] = NoResult
    /\ results[1] # NoResult
    /\ results[1].producer = 1

\* C4 (as stated): once a rate limit of key K has been reported with wait w at
\* time t no task sends a request with K before t + w, and a completed job has
\* a result for every segment.
C4_NoCallWithKeyInCooldown ==
    /\ [][\A i \in Idxs :
            IssuesCall(i) => key_usage'[workers'[i].key].cooldown_until <= now']_vars
    /\ [](job_ret = "completed" => \A i \in Idxs : results[i] # NoResult)

ProgressSent ==
    LET sent == SelectSeq(events, LAMBDA e : e.type = "progress")
    IN [k \in 1..Len(sent) |-> sent[k].progress]

\* C13: the progress percentages broadcast for a job never decrease, whatever
\* the order in which its chunks complete: the first is 5, those of the
\* collection stay within 5..90, and a completed job has ended on 100.
C13_ProgressNeverDecreases ==
    /\ \A k \in 1..(Len(ProgressSent) - 1) : ProgressSent[k] <= ProgressSent[k + 1]
    /\ ProgressSent # <<>> => ProgressSent[1] = 5
    /\ \A k \in 1..Len(ProgressSent) :
         ProgressSent[k] \in 5..90 \/ (k = Len(ProgressSent) /\ ProgressSent[k] = 100)
    /\ job_ret = "completed" => ProgressSent[Len(ProgressSent)] = 100

\* a job of two chunks has completed: 5 before the first, 47 and 90 as they
\* were collected, 100 at the end
C13_Witness ==
    /\ total_chunks = 2
    /\ job_ret = "completed"
    /\ ProgressSent = <<5, 47, 90, 100>>

\* the place of a stage in the pipeline
StageRank(stage) ==
    CASE stage = "queued" -> 0
      [] stage = "downloading" -> 1
      [] stage = "start" -> 2
      [] stage = "splitting" -> 3
      [] stage = "transcribing" -> 4
      [] stage = "combining" -> 5
      [] stage = "rendering" -> 6
      [] stage = "shutdown" -> 7
      [] stage = "returned" -> 8

\* the summary call is sent
IssuesSummaryCall == summary.pc # "calling" /\ summary'.pc = "calling"

\* C14 (as stated): the job never goes back to an earlier stage; from the
\* moment its outcome is fixed (failed, cancelled or completed) the outcome
\* stays, no event is broadcast and no task and no summary sends a request; an
\* error or complete event is the last event of the job.
C14_NoActivityOnceEnded ==
    /\ [][StageRank(jpc') >= StageRank(jpc)]_vars
    /\ [][job_ret # "none" =>
            /\ UNCHANGED <<job_ret, events>>
            /\ \A i \in Idxs : ~IssuesCall(i)
            /\ ~IssuesSummaryCall]_vars
    /\ [](\A k \in 1..Len(events) :
            events[k].type \in {"error", "complete"} => k = Len(events))

\* C14 (amended): the job never goes back to an earlier stage; once
\* transcribe_full has returned (failed, cancelled or completed) its stage and
\* outcome stay as they are, no task and no summary sends a request, no key is
\* acquired and no event is broadcast; an error or complete event is the last
\* event of the job, and the outcome, once fixed, stays.
C14_ForwardOnly ==
    /\ [][StageRank(jpc') >= StageRank(jpc)]_vars
    /\ [][jpc = "returned" =>
            /\ UNCHANGED <<jpc, job_ret, events, full_text, results, key_usage>>
            /\ \A i \in Idxs : ~IssuesCall(i)
            /\ ~IssuesSummaryCall]_vars
    /\ [][job_ret # "none" => UNCHANGED <<job_ret, events>>]_vars
    /\ [](\A k \in 1..Len(events) :
            events[k].type \in {"error", "complete"} => k = Len(events))

\* a job cancelled while its first task was running has ended, and time has
\* passed since
C14_Witness ==
    /\ jpc = "returned"
    /\ job_ret = "Cancelled"
    /\ at_cancel.phase = "transcribing"
    /\ at_cancel.unstarted # {}
    /\ events[Len(events)].type = "error"
    /\ now > 0

\* the outcomes of a job that stopped because it was cancelled: the scheduler
\* returned {"error": "Cancelled"}, or run_job returned before calling it
CancelledOutcomes == {"Cancelled", "not run"}

\* C15 (as stated): a job whose cancellation flag was set while it was queued,
\* downloading, splitting, transcribing, merging or rendering ends cancelled,
\* and never completed.
C15_CancelledFromEveryStage ==
    at_cancel.phase # "none" =>
        /\ job_ret # "completed"
        /\ jpc = "returned" => job_ret \in CancelledOutcomes

\* no credential is configured
NoCredential == Len(paid_keys) + Len(free_keys) = 0

\* C16: with no credential configured the job never splits the audio, never
\* has a task, never acquires a key and sends no request; transcribe_full,
\* unless the job was cancelled before, returns "No API keys configured" at
\* once, after the error event that says so.
C16_NoKeysFailsFast ==
    /\ [](NoCredential =>
            /\ StageRank(jpc) \notin 3..7
            /\ workers = <<>> /\ total_chunks = 0
            /\ key_usage = EmptyUsage
            /\ summary.pc = "idle"
            /\ full_text = <<>>
            /\ \A k \in 1..Len(events) : events[k].type = "error")
    /\ [][NoCredential /\ jpc = "start" /\ jpc' # "start" /\ ~cancelled =>
            /\ jpc' = "returned"
            /\ job_ret' = "No API keys configured"
            /\ events' = Append(events, ErrorEvent("No API keys configured"))]_vars

\* an uploaded job has failed for want of a key
C16_Witness ==
    /\ NoCredential
    /\ jpc = "returned"
    /\ job_ret = "No API keys configured"
    /\ events = <<ErrorEvent("No API keys configured")>>
    /\ workers = <<>>

\* the outcomes of a job whose audio could not be had or gave no chunk
NoAudioOutcomes == {"Download failed", "No chunks generated"}

\* C17: when download_audio fails or split_audio yields no chunk the job ends
\* there, after an error event: no task is ever created, no key acquired, no
\* transcript text built, no summary asked for and no complete event
\* broadcast.
C17_NoAudioNoTranscript ==
    /\ [][jpc = "downloading" /\ events' # events =>
            /\ jpc' = "returned"
            /\ job_ret' = IF cancelled THEN "not run" ELSE "Download failed"
            /\ events' = Append(events, ErrorEvent("Download failed"))]_vars
    /\ [][jpc = "splitting" /\ jpc' # "splitting" /\ total_chunks' = 0 =>
            /\ jpc' = "returned"
            /\ job_ret' = "No chunks generated"
            /\ events' = Append(events, ErrorEvent("Extracted audio is empty"))]_vars
    /\ [](job_ret \in NoAudioOutcomes =>
            /\ jpc = "returned"
            /\ workers = <<>> /\ total_chunks = 0
            /\ key_usage = EmptyUsage
            /\ summary.pc = "idle"
            /\ full_text = <<>>
            /\ Len(events) = 1 /\ events[1].type = "error")

\* a job with a key whose audio gave no chunk has failed
C17_Witness ==
    /\ ~NoCredential
    /\ jpc = "returned"
    /\ job_ret = "No chunks generated"
    /\ events = <<ErrorEvent("Extracted audio is empty")>>
    /\ workers = <<>>
    /\ full_text = <<>>

\* C18 (as stated): a job that has chunks and is not cancelled ends completed
\* with a result for every chunk, whatever happens to a single chunk: the
\* retry ceiling reached, or an error while its response is processed.
C18_ChunkFailureNeverAbortsJob ==
    jpc = "returned" /\ total_chunks > 0 /\ ~cancelled =>
        /\ job_ret = "completed"
        /\ \A i \in Idxs : results[i] # NoResult /\ ~IsRaised(results[i])

\* ------------------------------------------------------------ transcribe_chunk

\* task i leaves transcribe_chunk with an error or cancelled result, or with a
\* payload that has no subsegment to label, and process_chunk hands it on
ReturnsFromTranscribe(i) ==
    /\ jpc = "transcribing"
    /\ workers[i].pc \in {"tc_top", "tc_assess", "tc_calling"}
    /\ workers'[i].pc = "finished"

\* what it returned
Returned == doneq'[Len(doneq')].result

\* the failure counted last when task i returns: the exception caught in this
\* very step, or the one remembered
LastFailure(i) ==
    IF workers[i].pc = "tc_calling" THEN "exception" ELSE workers[i].last

\* the failure an error text tells of: str(e) of the exception, or nothing
FailureTold(text) ==
    IF text = <<"[ERROR: Could not transcribe chunk - e]">> THEN "exception"
    ELSE "none"

\* C19 (as stated): transcribe_chunk raises nothing; it returns a payload, a
\* cancelled result, or, with the ceiling reached, an error result that
\* carries the reason of the last failure.
C19_ErrorCarriesLastFailure ==
    [][\A i \in Idxs : ReturnsFromTranscribe(i) =>
          /\ ~IsRaised(Returned)
          /\ \/ ~Returned.error
             \/ Returned = CancelledResult(i) /\ cancelled
             \/ /\ Returned.error
                /\ workers[i].attempt + 1 >= MaxRetries
                /\ FailureTold(Returned.text) = LastFailure(i)]_vars

\* C19 (amended): transcribe_chunk raises nothing; it returns a payload, a
\* cancelled result, or, with the ceiling reached, an error result: with the
\* text of the exception when an exception was the last failure counted, with
\* the fixed sentence "Max retries exceeded across all keys" when a rate limit
\* was.
C19_ErrorResultAtCeiling ==
    [][\A i \in Idxs : ReturnsFromTranscribe(i) =>
          /\ ~IsRaised(Returned)
          /\ \/ ~Returned.error
             \/ Returned = CancelledResult(i) /\ cancelled
             \/ /\ Returned.error
                /\ workers[i].pc = "tc_calling"
                /\ workers[i].attempt + 1 >= MaxRetries
                /\ Returned.text = <<"[ERROR: Could not transcribe chunk - e]">>
             \/ /\ Returned.error
                /\ workers[i].pc = "tc_top"
                /\ workers[i].attempt >= MaxRetries
                /\ workers[i].last = "429"
                /\ Returned.text =
                     <<"[ERROR: Max retries exceeded across all keys. System abandoned chunk.]">>]_vars

\* the retries of a chunk ended on a rate limit, and its result has been
\* collected
C19_Witness ==
    \E i \in Idxs :
        /\ results[i].error
        /\ results[i].text =
             <<"[ERROR: Max retries exceeded across all keys. System abandoned chunk.]">>
        /\ faults = MaxRetries

\* C20 (as stated): the loop of transcribe_chunk begins at most MaxRetries
\* turns, whatever the pool and the service do.
C20_AtMostCeilingTurns ==
    \A i \in Idxs :
        workers[i].pc \in {"tc_top", "tc_assess", "tc_ready", "tc_calling"} =>
            workers[i].iters <= MaxRetries

\* ------------------------------------------------------ smart_format_chunk_sync

\* task i is in the loop of smart_format_chunk_sync
InFormatLoop(i) == workers[i].pc \in {"sf_top", "sf_calling"}

\* C21 (as stated): whatever the secondary model answers, the loop of
\* smart_format_chunk_sync begins at most MaxFormatAttempts turns, each with
\* one call, before the overlay.
C21_AtMostCeilingCalls ==
    \A i \in Idxs : InFormatLoop(i) => workers[i].iters <= MaxFormatAttempts

\* the overlay has run after every attempt of the speaker loop had failed
MergedAfterEveryAttemptFailed ==
    mstage = "merged" /\ format_attempt >= MaxFormatAttempts

\* the ids of the subsegments kept
KeptIds == {segments_data[k].id : k \in 1..Len(segments_data)}

C23_EveryAccessUnderLock ==
    last.op \in {"acquire", "cooldown", "read"} => last.holder = last.by

\* ------------------------------------------------------------- max_workers

\* the primary keys as _get_next_key counts them (main.py:292-306)
PrimaryCount == Max(1, Len(all_keys) - BackupCount(free_keys))

\* C24: the tasks of the job that run at the same time are never more than
\* the primary keys; the keys of the reserve add nothing to the limit.
C24_WorkersWithinPrimaries == Cardinality(Running) <= PrimaryCount

\* a reserve exists, the primary keys are all matched by a running task and
\* another task waits for a thread
C24_Witness ==
    /\ jpc = "transcribing"
    /\ BackupCount(free_keys) > 0
    /\ Cardinality(Running) = PrimaryCount
    /\ Unstarted # {}

\* ------------------------------------------------- how a cancellation is told

\* the events of the type used for failures
ErrorEvents == {k \in 1..Len(events) : events[k].type = "error"}

\* C25 (as stated): a job that ends cancelled is not reported through the
\* error event used for failures.
C25_CancelledIsNotAnError == job_ret = "Cancelled" => ErrorEvents = {}

\* ------------------------------------------- the flag at the head of a loop

\* task i is about to begin a turn of one of its two loops
BeginsTurn(i) ==
    /\ workers[i].wake = 0
    /\ \/ workers[i].pc = "tc_top" /\ workers[i].attempt < MaxRetries
       \/ workers[i].pc = "sf_top" /\ workers[i].attempt < MaxFormatAttempts

\* C26 (as stated): a turn of the transcription loop or of the speaker loop
\* that begins after the cancellation flag is set sends no request: the task
\* returns, and what it returns is the cancelled result.
C26_CancelledResultAtLoopHead ==
    [][\A i \in Idxs :
          (cancelled /\ BeginsTurn(i) /\ workers'[i] # workers[i]) =>
              /\ workers'[i].pc = "finished"
              /\ jpc = "transcribing" =>
                     doneq' = Append(doneq, [idx |-> i, result |-> CancelledResult(i)])]_vars

\* ------------------------------------------------- a notification is lost

TranscriptionPending(i) ==
    workers[i].pc \in {"queued", "tc_top", "tc_assess", "tc_ready", "tc_calling"}

\* C28 (as stated): no speaker request of the job is outstanding while a
\* transcription request of the job is outstanding or still to be sent.
C28_SpeakerPassAfterTranscribing ==
    \A i, j \in Idxs : workers[i].pc = "sf_calling" => ~TranscriptionPending(j)

\* --------------------------------------------------- what a 429 is followed by

\* this step is task i being answered 429
RateLimitedStep(i) ==
    /\ rate_limited'.n = rate_limited.n + 1
    /\ workers[i].pc \in {"tc_calling", "sf_calling"}
    /\ workers'[i] # workers[i]

\* the default of the loop task i is in
DefaultOf(i) == IF workers[i].pc = "tc_calling" THEN TcDefaultWait ELSE SfDefaultWait

\* the hint of the header if it has one, else the hint of the message if it
\* has one, else the default
HintedWait(default, response) ==
    IF response.header.given /\ response.header.number THEN response.header.value
    ELSE IF response.message.found THEN response.message.value
    ELSE default

\* the message is read only when no header was sent
WaitOfHeaderElseMessage(default, response) ==
    IF response.header.given /\ response.header.number THEN response.header.value
    ELSE IF ~response.header.given /\ response.message.found
    THEN response.message.value
    ELSE default

\* with the usage ku, an acquire made now gets key k only as the fallback
\* taken when every configured key is in cooldown
SeenInCooldown(k, ku) ==
    GetNextKey(all_keys, paid_keys, free_keys, ku, now).key = k =>
        \A c \in Range(all_keys) : ku[c].cooldown_until > now

\* C29 (as stated): a task answered 429 for key K reports a cooldown of the
\* header's hint, else the message's hint, else the default, for K; the next
\* acquire sees K in cooldown; the task's attempt goes up by one.
C29_CooldownReportedOnEvery429 ==
    [][\A i \in Idxs : RateLimitedStep(i) =>
          LET k == workers[i].key
          IN /\ key_usage'[k].cooldown_until
                    = now + HintedWait(DefaultOf(i), rate_limited'.response)
             /\ SeenInCooldown(k, key_usage')
             /\ workers'[i].attempt = workers[i].attempt + 1]_vars

\* C29 (amended): the cooldown reported is the header's number if a header
\* was sent and is a number, the default if a header was sent and is not a
\* number, and without a header the message's hint, else the default; if it
\* is longer than zero the next acquire sees K in cooldown; the report is
\* made in every case, and the task then sleeps with attempt one higher,
\* unless it is a transcription task of a cancelled job, which returns the
\* cancelled result.
C29_CooldownReportedBeforeSleep ==
    [][\A i \in Idxs : RateLimitedStep(i) =>
          LET k == workers[i].key
              wait == WaitOfHeaderElseMessage(DefaultOf(i), rate_limited'.response)
          IN /\ key_usage'[k].cooldown_until = now + wait
             /\ wait > 0 => SeenInCooldown(k, key_usage')
             /\ IF workers[i].pc = "tc_calling" /\ cancelled
                THEN /\ workers'[i].pc = "finished"
                     /\ jpc = "transcribing" =>
                            doneq' = Append(doneq, [idx |-> i,
                                                    result |-> CancelledResult(i)])
                ELSE /\ workers'[i].pc
                            = IF workers[i].pc = "tc_calling" THEN "tc_top" ELSE "sf_top"
                     /\ workers'[i].attempt = workers[i].attempt + 1
                     /\ workers'[i].wake > now]_vars

\* a task sleeps after a 429 whose header was not a number, the key it used
\* in cooldown for the default
C29_Witness ==
    /\ rate_limited.n > 0
    /\ rate_limited.response.header = DateHeader
    /\ \E i \in Idxs :
          /\ workers[i].pc \in {"tc_top", "sf_top"}
          /\ workers[i].attempt > 0
          /\ workers[i].wake > now
    /\ \E k \in Range(all_keys) : key_usage[k].cooldown_until = now + TcDefaultWait

\* ------------------------------------------------- waiting for a cooldown

\* task i holds a key whose cooldown is not over and is about to assess it
HoldsCoolingKey(i) ==
    /\ workers[i].pc = "tc_assess"
    /\ key_usage[workers[i].key].cooldown_until > now

\* what is left of the cooldown of the key task i holds
Remaining(i) == key_usage[workers[i].key].cooldown_until - now

\* task i is at the head of the transcription loop, its sleep over
AwakeAtLoopHead(i) == workers[i].pc = "tc_top" /\ workers[i].wake = 0

\* task i returns the cancelled result in this step
ReturnsCancelled(i) ==
    /\ workers'[i].pc = "finished"
    /\ jpc = "transcribing" =>
           doneq' = Append(doneq, [idx |-> i, result |-> CancelledResult(i)])

\* C30: a transcription task whose key is still in cooldown sends no request
\* with it: it goes back to the head of the loop, attempt unchanged, after a
\* sleep of at most the rest of the cooldown and at most 2 seconds; once the
\* job is cancelled it returns the cancelled result instead of sleeping, and
\* a task that was asleep returns it as soon as the sleep is over.
C30_CooldownWaitIsCappedAndCancellable ==
    [][\A i \in Idxs :
          /\ (HoldsCoolingKey(i) /\ workers'[i] # workers[i]) =>
                IF cancelled THEN ReturnsCancelled(i)
                ELSE /\ workers'[i].pc = "tc_top"
                     /\ workers'[i].attempt = workers[i].attempt
                     /\ workers'[i].attempt < MaxRetries
                     /\ workers'[i].wake > now
                     /\ workers'[i].wake - now <= Remaining(i)
                     /\ workers'[i].wake - now <= Seconds(2)
          /\ workers[i].pc = "tc_top" => workers[i].wake - now <= Seconds(2)
          /\ (cancelled /\ AwakeAtLoopHead(i) /\ workers[i].attempt < MaxRetries
                /\ workers'[i] # workers[i]) => ReturnsCancelled(i)]_vars

\* a task sleeps the 2 seconds of the cap, no attempt counted, while the key
\* it was given stays in cooldown for longer, and the job is cancelled
C30_Witness ==
    /\ cancelled
    /\ \E i \in Idxs :
          /\ workers[i].pc = "tc_top"
          /\ workers[i].wake = now + Seconds(2)
          /\ workers[i].attempt = 0
          /\ \E k \in Range(all_keys) : key_usage[k].cooldown_until > workers[i].wake

\* ------------------------------------------------------------ chunk_minutes

\* the band of a number of keys, as the table reads
BandFloor(n) ==
    CASE n <= 2 -> 25
      [] n > 2 /\ n <= 5 -> 20
      [] n > 5 /\ n <= 10 -> 15
      [] OTHER -> 10

\* C31: the chunk length is the larger of the band's value (25, 20, 15, 10
\* minutes for up to 2, 5, 10 and more keys) and the saved setting, never
\* below the band's value, and the band's value does not grow with the keys.
C31_ChunkMinutesByBand ==
    sizing.computed =>
        /\ sizing.chunk_minutes >= BandFloor(sizing.total_keys)
        /\ sizing.chunk_minutes
               = IF sizing.saved_chunk_size > BandFloor(sizing.total_keys)
                 THEN sizing.saved_chunk_size ELSE BandFloor(sizing.total_keys)
        /\ \A n \in 1..sizing.total_keys :
               ChunkMinutesOfBand(n) >= ChunkMinutesOfBand(sizing.total_keys)

\* many keys and a saved setting below the band's value: the band's value stays
C31_Witness ==
    /\ sizing.computed
    /\ sizing.total_keys > 10
    /\ sizing.saved_chunk_size < sizing.chunk_minutes
    /\ sizing.chunk_minutes = 10

\* ------------------------------------------------------ the rolling counter

\* the last reset of key k as an acquire made now finds it
LastReset(k) == IF k \in DOMAIN key_usage THEN key_usage[k].last_reset ELSE now

\* the counter window of key k is over
Stale(k) == now - LastReset(k) > ResetWindow

\* C32: an acquire sets the count of every configured key whose last reset is
\* more than 60 seconds old to 0, then adds exactly 1 to the count of the key
\* it returns if that key is out of cooldown, and adds nothing to any other.
C32_ResetThenChargeOne ==
    [][acquires' = acquires + 1 =>
          \A k \in Configured :
              key_usage'[k].calls
                  = (IF Stale(k) THEN 0 ELSE Calls(k))
                    + (IF last'.key = k /\ ~InCooldown(k) THEN 1 ELSE 0)]_vars

\* one key, three acquires, and a count of 1: the window ran out before the
\* last acquire, which reset the count and charged the key once
C32_Witness ==
    /\ Cardinality(Configured) = 1
    /\ acquires = 3
    /\ everReset
    /\ last.op = "acquire"
    /\ \A k \in Configured : last.key = k /\ Calls(k) = 1 /\ ~InCooldown(k)

\* ------------------------------------------------- who the text is given to

\* the characters of a merged text that are no white space and no part of a
\* header, each with the speaker of the header above it ("nobody" above the
\* first header)
RECURSIVE Attributed(_, _)
Attributed(t, speaker) ==
    IF t = <<>> THEN <<>>
    ELSE IF Head(t) = "[SPEAKER]" /\ Len(t) >= 7
    THEN Attributed(SubSeq(t, 8, Len(t)), t[3])
    ELSE IF IsSpace(Head(t)) THEN Attributed(Tail(t), speaker)
    ELSE <<[speaker |-> speaker, char |-> Head(t)]>> \o Attributed(Tail(t), speaker)

\* the change records with an id up to id
RecordsUpTo(id) == {r \in DOMAIN speaker_map : r <= id}

\* the speaker of the most recent change record up to id, "Unknown Speaker"
\* without one
FillForward(id) ==
    IF RecordsUpTo(id) = {} THEN "Unknown Speaker"
    ELSE speaker_map[CHOOSE r \in RecordsUpTo(id) : \A q \in RecordsUpTo(id) : q <= r]

\* the characters of the subsegments kept, each with the speaker its
\* subsegment is to be given to
RECURSIVE FilledForward(_)
FilledForward(data) ==
    IF data = <<>> THEN <<>>
    ELSE LET chars == NonSpace(Head(data).text)
         IN [k \in 1..Len(chars) |->
                [speaker |-> FillForward(Head(data).id), char |-> chars[k]]]
            \o FilledForward(Tail(data))

\* C33 (as stated): in the merged text every subsegment stands under the
\* speaker of the most recent change record with an id up to its own,
\* "Unknown Speaker" without one, and there is one header for every kept
\* subsegment that has a change record, and one for id 0.
C33_FillForwardBetweenChanges ==
    mstage = "merged" =>
        /\ Attributed(final_text, "nobody") = FilledForward(segments_data)
        /\ CountOf(final_text, "[SPEAKER]")
               = Cardinality(KeptIds \cap ((DOMAIN speaker_map) \cup {0}))

\* C38 (as stated): the merged text of a chunk with a subsegment kept begins
\* with a speaker header, so that no text stands above the first header.
C38_MergedTextOpensWithHeader ==
    mstage = "merged" =>
        /\ final_text # <<>>
        /\ Head(final_text) = "[SPEAKER]"
        /\ \A k \in 1..Len(Attributed(final_text, "nobody")) :
               Attributed(final_text, "nobody")[k].speaker # "nobody"

\* ------------------------------------------------ one report after another

\* C34 (as stated): a cooldown report never brings the end of a key's
\* cooldown forward, so that the end is never before that of any report made.
C34_ReportNeverShortens ==
    [][last'.op = "cooldown" =>
          \A k \in Configured : key_usage'[k].cooldown_until >= CooldownUntil(k)]_vars

(***************************************************************************)
(* Cancelled results and the outcome of the job                            *)
(***************************************************************************)

CancelledText == <<"[CANCELLED]">>

\* a task of the job has handed the scheduler a cancelled result
HandedCancelled == \E n \in 1..Len(doneq) : doneq[n].result.text = CancelledText

\* the cancelled set only grows, and no cancelled result is stored for
\* assembly or appears in the transcript
CancelledNeverAssembled ==
    /\ [][cancelled => cancelled']_vars
    /\ [](\A i \in Idxs : results[i].text # CancelledText)
    /\ [](\A n \in 1..Len(full_text) : full_text[n] # "[CANCELLED]")
    /\ [](HandedCancelled => cancelled /\ job_ret # "completed")

CallsInFlight ==
    {i \in Idxs : workers[i].pc \in {"tc_calling", "sf_calling"}}

\* C36: when transcribe_full has returned every task of the job has finished
\* and the summary thread is over, and nothing of the job runs afterwards: no
\* task moves, no key is acquired or reported and no request is made.
C36_NoWorkerOutlivesScheduler ==
    /\ [](jpc = "returned"
            => /\ \A i \in Idxs : workers[i].pc = "finished"
               /\ CallsInFlight = {}
               /\ summary.pc \notin {"top", "calling"})
    /\ [][jpc = "returned"
            => workers' = workers /\ summary' = summary /\ key_usage' = key_usage]_vars

\* a job cancelled while it transcribed has returned, after the tasks that
\* were still queued at the cancellation have run
C36_Witness ==
    /\ jpc = "returned"
    /\ job_ret = "Cancelled"
    /\ at_cancel.phase = "transcribing"
    /\ at_cancel.unstarted # {}
    /\ \A i \in Idxs : workers[i].pc = "finished"

(***************************************************************************)
(* Two jobs of one engine                                                  *)
(***************************************************************************)

\* job j came to an end as cancelled, or its segment returned cancelled
EndedCancelled(j) ==
    \/ jobs[j].ret \in {"Cancelled", "not run"}
    \/ jobs[j].result.text = <<"[CANCELLED]">>

\* C37: a job that was not itself cancelled never has a segment return
\* cancelled and never ends Cancelled, whatever other job was cancelled; a
\* cancel request changes cancelled_jobs only, no job and no counter or
\* cooldown of the pool.
C37_CancellingOneJobSparesTheOther ==
    /\ [](\A j \in Started : j \notin cancelled_jobs => ~EndedCancelled(j))
    /\ [][cancelled_jobs' # cancelled_jobs
              => jobs' = jobs /\ key_usage' = key_usage]_vars

\* job A was cancelled, its segment returned cancelled and it ended Cancelled;
\* job B, on the same engine, completed with its segment labelled
C37_Witness ==
    /\ Started = JobIds
    /\ cancelled_jobs = {"A"}
    /\ jobs["A"].ret = "Cancelled"
    /\ jobs["A"].result.text = <<"[CANCELLED]">>
    /\ jobs["B"].ret = "completed"
    /\ jobs["B"].result.text = <<"labelled">>

(***************************************************************************)
(* Calls and the rolling counters                                          *)
(***************************************************************************)

\* task i acquires the key of a classification call, which is made at once
AcquiresForCall(i) == workers[i].pc = "sf_top" /\ workers'[i].pc = "sf_calling"

\* the acquire of this step has counted one call on key k, after the reset
\* of a counter that was due
CountedOn(k) ==
    \/ key_usage'[k].calls = Calls(k) + 1
    \/ key_usage'[k].calls = 1 /\ key_usage'[k].last_reset = now

\* C39 (as stated), for the call that follows its acquire at once: the acquire
\* that hands a task the key of a classification call increments the rolling
\* counter of that key, also when every key is in cooldown.
C39_EveryCallIsCounted ==
    [][\A i \in Idxs : AcquiresForCall(i) => CountedOn(workers'[i].key)]_vars

(***************************************************************************)
(* What a report and an acquire leave alone                                *)
(***************************************************************************)

\* this step is a cooldown report, on key last'.key
ReportStep == last'.op = "cooldown" /\ held' # held

\* this step is an acquire
AcquireStep == acquires' = acquires + 1

\* every configured key is in cooldown, so that an acquire takes the fallback
AllInCooldown == Configured # {} /\ \A k \in Configured : InCooldown(k)

\* C40: a cooldown report on K changes the end of K's cooldown only: every
\* counter and reset timestamp, K's included, and the cooldown of every other
\* key stay as they were. An acquire changes no end of cooldown, and one that
\* takes the all-in-cooldown fallback increments no counter.
C40_FrameOfReportAndAcquire ==
    /\ [][ReportStep
            => /\ DOMAIN key_usage' = DOMAIN key_usage
               /\ \A k \in DOMAIN key_usage :
                     /\ key_usage'[k].calls = key_usage[k].calls
                     /\ key_usage'[k].last_reset = key_usage[k].last_reset
                     /\ k # last'.key
                          => key_usage'[k].cooldown_until = key_usage[k].cooldown_until]_vars
    /\ [][AcquireStep
            => /\ \A k \in DOMAIN key_usage' :
                     key_usage'[k].cooldown_until = CooldownUntil(k)
               /\ AllInCooldown
                    => \A k \in DOMAIN key_usage' : key_usage'[k].calls <= Calls(k)]_vars

\* with two keys, both in cooldown, an acquire has just handed one of them
\* out through the fallback
C40_Witness ==
    /\ Cardinality(Configured) = 2
    /\ AllInCooldown
    /\ last.op = "acquire"
    /\ last.key \in Configured
    /\ \E k \in Configured : Calls(k) > 0

====
